---- MODULE Spec2Model ----
(***************************************************************************)
(* Model of the sg-jb travel-time prediction service (backend/app).        *)
(*                                                                         *)
(* Minutes are fixed-point integers in thousandths of a minute ("milli"):  *)
(* every product the code forms from its tables (x0.7, x0.85, x1.15, x1.3, *)
(* x1.5, x(0.7+0.3m) with m in tenths) is exact at that resolution.        *)
(* Python's round(x, 1) acts on the binary double, so at a decimal tie     *)
(* (x.x5) it follows the sign of the double's representation error; that   *)
(* sign is computed exactly below (MulErrSign) with modular arithmetic.    *)
(***************************************************************************)
EXTENDS Integers, Sequences, FiniteSets, TLC

VARIABLES
  model,     \* the process-wide TravelTimeModel object (model.py:133)
  settings,  \* the process-wide Settings object (config.py:47)
  inv,       \* the /predict invocations in progress: id -> locals of the handler
  call,      \* the arguments and result of a direct call of one function
  db,        \* the rows of the crossings table (database.py:36), in insertion order
  clock      \* the UTC wall clock, in whole hours since midnight of day 0

vars == << model, settings, inv, call, db, clock >>

--------------------------------------------------------------------------
(* Fixed-point helpers. *)

Minutes(n) == n * 1000

Max2(a, b) == IF a >= b THEN a ELSE b

\* max of four with only the first argument looked at
Max4First(a, b, c, d) == a

Max4(a, b, c, d) == Max2(Max2(a, b), Max2(c, d))

Sign(x) == IF x > 0 THEN 1 ELSE IF x < 0 THEN -1 ELSE 0

RECURSIVE Pow2(_)
Pow2(k) == IF k <= 0 THEN 1 ELSE 2 * Pow2(k - 1)

\* 2^k mod d, by repeated doubling (the operands stay below 2d)
RECURSIVE Pow2Mod(_, _)
Pow2Mod(k, d) == IF k <= 0 THEN 1 % d ELSE (2 * Pow2Mod(k - 1, d)) % d

\* the binade of n/1000 >= 1: the largest e with 2^e <= n/1000
RECURSIVE BinadeFrom(_, _)
BinadeFrom(n, e) == IF Pow2(e + 1) * 1000 <= n THEN BinadeFrom(n, e + 1) ELSE e

Binade(n) == BinadeFrom(n, 0)

\* The double nearest to the decimal literal c/10 (0.7, 1.3) is
\* c/10 + (CoefErrNumer(c)/10) * 2^(CoefExp(c) - 52).
CoefExp(c) == IF c < 10 THEN -1 ELSE 0

CoefErrNumer(c) ==
  LET fq == (c * Pow2Mod(52 - CoefExp(c), 10)) % 10
  IN  IF fq < 5 THEN 0 - fq ELSE 10 - fq

\* Sign of (the double product (bw2/2) * c/10 as Python computes it) minus
\* (the exact decimal product), for bw2/2 a multiple of 0.5 and the product
\* at least 1: the exact product of the two doubles is rounded to the
\* nearest double (ties to even mantissa).
MulErrSign(bw2, c) ==
  LET n    == bw2 * c * 50                      \* the decimal product, milli
      e    == Binade(n)
      k    == 52 - e
      fq   == ((n % 1000) * Pow2Mod(k, 1000)) % 1000
      D    == 1000 * Pow2(e + 1)
      X    == fq * Pow2(e + 1)
              + 50 * bw2 * CoefErrNumer(c) * Pow2(CoefExp(c) + 1)
      odd  == ((n % 2000) * Pow2Mod(k, 2000)) % 2000 >= 1000
      lo   == ((2 * X + D) \div (2 * D)) - 1
      r    == IF (2 * X + D) % (2 * D) = 0
                THEN (IF (lo % 2 = 1) = odd THEN lo ELSE lo + 1)
                ELSE (2 * X + D) \div (2 * D)
  IN  Sign(r * D - fq * Pow2(e + 1))

\* Python round(x, 1) of a double whose decimal value is n milli and whose
\* representation error has sign dir: result in milli (a multiple of 100).
\* An exact tie (dir = 0) goes to the even tenth.
Round1(n, dir) ==
  LET t   == n \div 100
      rem == n % 100
      up  == \/ rem > 50
             \/ rem = 50 /\ (dir > 0 \/ (dir = 0 /\ t % 2 = 1))
  IN  100 * (IF up THEN t + 1 ELSE t)

--------------------------------------------------------------------------
(* CheckpointWaitTimeEstimator (traffic_apis.py) *)

\* WAIT_TIME_PATTERNS[checkpoint][day_type][direction][hour + 1], minutes
WAIT_TIME_PATTERNS ==
  [ woodlands |-> [
    weekday |-> [
      singapore_to_jb |->
        << 5, 5, 5, 5, 5, 8, 15, 25, 35, 20, 10, 8, 10, 8, 8, 10, 15, 30, 40, 35, 25, 15, 10, 8 >>,
      jb_to_singapore |->
        << 8, 5, 5, 5, 5, 10, 20, 40, 50, 30, 15, 10, 12, 10, 10, 12, 20, 35, 45, 40, 30, 20, 12, 10 >> ],
    weekend |-> [
      singapore_to_jb |->
        << 8, 5, 5, 5, 5, 8, 10, 15, 25, 30, 20, 15, 12, 10, 12, 15, 20, 25, 30, 25, 20, 15, 12, 10 >>,
      jb_to_singapore |->
        << 10, 8, 5, 5, 5, 10, 15, 25, 35, 40, 30, 20, 18, 15, 18, 25, 35, 45, 50, 45, 35, 25, 18, 15 >> ] ],
  tuas |-> [
    weekday |-> [
      singapore_to_jb |->
        << 3, 3, 3, 3, 3, 5, 8, 12, 15, 10, 5, 5, 5, 5, 5, 8, 10, 15, 20, 18, 12, 8, 5, 5 >>,
      jb_to_singapore |->
        << 5, 3, 3, 3, 3, 5, 10, 18, 25, 15, 8, 5, 8, 5, 5, 10, 15, 20, 25, 22, 15, 10, 8, 5 >> ],
    weekend |-> [
      singapore_to_jb |->
        << 3, 3, 3, 3, 3, 5, 5, 8, 12, 15, 10, 8, 8, 5, 8, 10, 12, 15, 18, 15, 10, 8, 5, 5 >>,
      jb_to_singapore |->
        << 5, 3, 3, 3, 3, 5, 8, 12, 18, 20, 15, 10, 12, 8, 12, 18, 25, 30, 35, 30, 20, 15, 10, 8 >> ] ] ]

\* BaseWaitLookup reading the entry of the hour before (the sequence is
\* indexed from 1, the hours from 0)
BaseWaitLookupOffByOne(checkpoint, day_type, direction, hour) ==
  IF /\ checkpoint \in DOMAIN WAIT_TIME_PATTERNS
     /\ day_type \in DOMAIN WAIT_TIME_PATTERNS[checkpoint]
     /\ direction \in DOMAIN WAIT_TIME_PATTERNS[checkpoint][day_type]
     /\ hour \in DOMAIN WAIT_TIME_PATTERNS[checkpoint][day_type][direction]
  THEN WAIT_TIME_PATTERNS[checkpoint][day_type][direction][hour]
  ELSE 10

\* the chained .get(checkpoint, {}).get(day_type, {}).get(direction, {}).get(hour, 10)
BaseWaitLookup(checkpoint, day_type, direction, hour) ==
  IF /\ checkpoint \in DOMAIN WAIT_TIME_PATTERNS
     /\ day_type \in DOMAIN WAIT_TIME_PATTERNS[checkpoint]
     /\ direction \in DOMAIN WAIT_TIME_PATTERNS[checkpoint][day_type]
     /\ hour + 1 \in DOMAIN WAIT_TIME_PATTERNS[checkpoint][day_type][direction]
  THEN WAIT_TIME_PATTERNS[checkpoint][day_type][direction][hour + 1]
  ELSE 10

\* HolidayAdjusted with the factor 2 in place of 1.5
HolidayDoubled(base, is_holiday) == IF is_holiday THEN base * 4 ELSE base * 2

\* base_wait in half minutes after "if is_holiday: base_wait *= 1.5"
HolidayAdjusted(base, is_holiday) == IF is_holiday THEN base * 3 ELSE base * 2

\* round(bw * c/10, 1) for the double product of bw = bw2/2 and the literal
\* c/10; only a decimal tie needs the sign of the product's error
RoundProduct1(bw2, c) ==
  LET n == bw2 * c * 50
  IN  Round1(n, IF n % 100 = 50 THEN MulErrSign(bw2, c) ELSE 0)

\* MinWait with the factor of max_wait, 1.3
MinWaitSwapped(bw2) ==
  IF bw2 * 13 * 50 > Minutes(2) THEN RoundProduct1(bw2, 13) ELSE Minutes(2)

\* round(max(2, base_wait * 0.7), 1), lines 252 and 257
MinWait(bw2) ==
  IF bw2 * 7 * 50 > Minutes(2) THEN RoundProduct1(bw2, 7) ELSE Minutes(2)

\* round(base_wait * 1.3, 1), lines 253 and 258
MaxWait(bw2) == RoundProduct1(bw2, 13)

estimate_wait_time(checkpoint, direction, hour, is_weekend, is_holiday) ==
  LET day_type == IF is_weekend THEN "weekend" ELSE "weekday"
      base     == BaseWaitLookup(checkpoint, day_type, direction, hour)
      bw2      == HolidayAdjusted(base, is_holiday)
  IN  [ estimated_wait_minutes |-> Round1(bw2 * 500, 0),
        min_wait_minutes       |-> MinWait(bw2),
        max_wait_minutes       |-> MaxWait(bw2),
        confidence             |-> "medium" ]

--------------------------------------------------------------------------
(* utils.py *)

\* HolidayChecker.is_school_holiday_sg, on the date's month and day
is_school_holiday_sg(check_date) ==
  LET month == check_date.month
      day   == check_date.day
  IN  \/ month = 3 /\ 8 <= day /\ day <= 16
      \/ (month = 5 /\ day >= 27) \/ (month = 6 /\ day <= 25)
      \/ month = 9 /\ 2 <= day /\ day <= 10
      \/ (month = 11 /\ day >= 18) \/ (month = 12 /\ day <= 31)

\* the Malaysian check answering by Singapore's calendar
IsSchoolHolidayMyBySgCalendar(check_date) == is_school_holiday_sg(check_date)

\* HolidayChecker.is_school_holiday_my
is_school_holiday_my(check_date) ==
  LET month == check_date.month
      day   == check_date.day
  IN  \/ month = 3 /\ 20 <= day /\ day <= 30
      \/ (month = 5 /\ day >= 27) \/ (month = 6 /\ day <= 11)
      \/ (month = 11 /\ day >= 20) \/ (month = 12 /\ day <= 31)

\* the training pipeline's default (feature_engineering.py:148-156): no
\* shoulder hours
PeakMultiplierNoShoulder(hour) ==
  IF hour \in {7, 8, 9, 17, 18, 19} THEN 250 ELSE 100

\* the peak factor taken for the shoulder factor
PeakMultiplierLow(hour) ==
  IF hour \in {6, 7, 8, 9, 10, 16, 17, 18, 19, 20} THEN 180 ELSE 100

\* peak_multiplier before the weekend adjustment, in hundredths
PeakMultiplier(hour) ==
  IF hour \in {7, 8, 9, 17, 18, 19} THEN 250
  ELSE IF hour \in {6, 10, 16, 20} THEN 180
  ELSE 100

\* "if day_of_week in [5, 6]: peak_multiplier *= 0.7", in hundredths
WeekendAdjusted(peak_multiplier, day_of_week) ==
  IF day_of_week \in {5, 6} THEN (peak_multiplier * 7) \div 10
  ELSE peak_multiplier

\* TrafficAPI.get_historical_avg_travel_time: base_time 30.0 * peak_multiplier
get_historical_avg_travel_time(hour, day_of_week) ==
  30 * 10 * WeekendAdjusted(PeakMultiplier(hour), day_of_week)

Flag(b) == IF b THEN 1 ELSE 0

\* WeatherAPI.get_current_weather: the reading, or the defaults when the
\* request fails; rain in tenths of a mm, temperature in tenths of a degree
DefaultWeather == [rain_mm |-> 0, temp_c |-> 300]

get_current_weather(answer) ==
  IF Len(answer) = 0 THEN DefaultWeather ELSE answer[1]

\* engineer_features: travel_date is [month, day, weekday, sg_holiday,
\* my_holiday] (the two public-holiday flags are what the holidays library
\* answers for the date), travel_time is << hour, minute >>, api_key is
\* settings.openweather_api_key being set, answer is what the weather
\* service gives when asked (<< >>: the request fails).
engineer_features(travel_date, travel_time, origin, destination, mode, api_key, answer) ==
  LET hour    == travel_time[1]
      minute  == travel_time[2]
      sg      == Flag(travel_date.sg_holiday)
      my      == Flag(travel_date.my_holiday)
      sgs     == Flag(is_school_holiday_sg(travel_date))
      mys     == Flag(is_school_holiday_my(travel_date))
      morning == Flag(7 <= hour /\ hour <= 9)
      evening == Flag(17 <= hour /\ hour <= 19)
      weather == IF api_key THEN get_current_weather(answer) ELSE DefaultWeather
  IN  [ hour_of_day          |-> hour,
        minute_of_hour       |-> minute,
        day_of_week          |-> travel_date.weekday,
        day_of_month         |-> travel_date.day,
        month                |-> travel_date.month,
        is_weekend           |-> Flag(travel_date.weekday >= 5),
        is_sg_holiday        |-> sg,
        is_my_holiday        |-> my,
        is_sg_school_holiday |-> sgs,
        is_my_school_holiday |-> mys,
        is_any_holiday       |-> Max4(sg, my, sgs, mys),
        direction_sg_to_jb   |-> Flag(origin = "singapore"),
        mode_car             |-> Flag(mode = "car"),
        mode_taxi            |-> Flag(mode = "taxi"),
        mode_bus             |-> Flag(mode = "bus"),
        rain_mm              |-> weather.rain_mm,
        temp_c               |-> weather.temp_c,
        historical_avg_time  |-> get_historical_avg_travel_time(hour, travel_date.weekday),
        is_morning_peak      |-> morning,
        is_evening_peak      |-> evening,
        is_peak_hour         |-> Max2(morning, evening) ]

\* calculate_congestion_level with <= in place of <
CongestionLevelInclusive(predicted_time, base_time) ==
  IF predicted_time * 10 <= 12 * base_time THEN "low"
  ELSE IF predicted_time * 10 <= 15 * base_time THEN "moderate"
  ELSE IF predicted_time * 10 <= 20 * base_time THEN "high"
  ELSE "severe"

\* calculate_congestion_level with the results of the two middle branches
\* exchanged
CongestionLevelSwapped(predicted_time, base_time) ==
  IF predicted_time * 10 < 12 * base_time THEN "low"
  ELSE IF predicted_time * 10 < 15 * base_time THEN "high"
  ELSE IF predicted_time * 10 < 20 * base_time THEN "moderate"
  ELSE "severe"

\* calculate_congestion_level: ratio = predicted_time / base_time compared
\* with 1.2, 1.5, 2.0 (base_time > 0; the comparisons are cross-multiplied)
calculate_congestion_level(predicted_time, base_time) ==
  IF predicted_time * 10 < 12 * base_time THEN "low"
  ELSE IF predicted_time * 10 < 15 * base_time THEN "moderate"
  ELSE IF predicted_time * 10 < 20 * base_time THEN "high"
  ELSE "severe"

\* the default of the base_time parameter, 30.0
DefaultBaseTime == Minutes(30)

--------------------------------------------------------------------------
(* model.py: TravelTimeModel *)

\* floor of the square root of n >= 0, by bisection on [lo, hi)
RECURSIVE ISqrtIn(_, _, _)
ISqrtIn(n, lo, hi) ==
  IF hi - lo <= 1 THEN lo
  ELSE LET mid == (lo + hi) \div 2
       IN  IF mid * mid <= n THEN ISqrtIn(n, mid, hi) ELSE ISqrtIn(n, lo, mid)

ISqrt(n) == ISqrtIn(n, 0, 46341)

RECURSIVE SumSeq(_)
SumSeq(s) == IF Len(s) = 0 THEN 0 ELSE Head(s) + SumSeq(Tail(s))

RECURSIVE SumSquares(_)
SumSquares(s) == IF Len(s) = 0 THEN 0 ELSE Head(s) * Head(s) + SumSquares(Tail(s))

\* n * sum(x^2) - sum(x)^2 = n^2 * (the mean squared deviation), x in minutes
SpreadNumer(s) == Len(s) * SumSquares(s) - SumSeq(s) * SumSeq(s)

\* np.std(tree_predictions): ddof defaults to 0, the divisor is n.
\* The members' predictions are whole minutes, the result is in milli.
NpStd(tree_predictions) ==
  LET n == Len(tree_predictions)
  IN  ISqrt((SpreadNumer(tree_predictions) * 1000000) \div (n * n))

\* "for estimator in self.model.estimators_[:50]: if hasattr(estimator,
\* 'predict')": a member is << its prediction >>, or << >> when it has no
\* predict attribute
SampleSize == 50

RECURSIVE TreePredictionsOf(_)
TreePredictionsOf(members) ==
  IF Len(members) = 0 THEN << >>
  ELSE (IF Len(Head(members)) = 0 THEN << >> ELSE << Head(members)[1] >>)
       \o TreePredictionsOf(Tail(members))

\* TreePredictions over all the members, without the [:50]
TreePredictionsUncapped(estimators) == TreePredictionsOf(estimators)

TreePredictions(estimators) ==
  TreePredictionsOf(SubSeq(estimators, 1,
                           IF Len(estimators) < SampleSize THEN Len(estimators)
                           ELSE SampleSize))

\* the +-15% band of a point value
FallbackBand(prediction) ==
  [ lower_bound |-> (prediction * 85) \div 100,
    upper_bound |-> (prediction * 115) \div 100 ]

\* predict, lines 104-123: artifact is [has_estimators, estimators];
\* prediction is the model's own answer in milli
ConfidenceBand(artifact, prediction) ==
  IF artifact.has_estimators
    THEN LET tree_predictions == TreePredictions(artifact.estimators)
         IN  IF Len(tree_predictions) > 0
               THEN LET std == NpStd(tree_predictions)
                    IN  [ lower_bound |-> Max2(0, prediction - (196 * std) \div 100),
                          upper_bound |-> prediction + (196 * std) \div 100 ]
               ELSE FallbackBand(prediction)
    ELSE FallbackBand(prediction)

\* predict that answers a failing model with the +-15% band around 30 minutes
PredictSubstitute(self, answer) ==
  IF ~ self.model_loaded
    THEN [ raised |-> << "Model not loaded" >>, result |-> << >>, model_calls |-> 0 ]
  ELSE LET point == IF Len(answer) = 0 THEN Minutes(30) ELSE answer[1]
           band == ConfidenceBand(self.model[1], point)
       IN  [ raised |-> << >>,
             result |-> << [ predicted_time |-> point,
                             lower_bound    |-> band.lower_bound,
                             upper_bound    |-> band.upper_bound ] >>,
             model_calls |-> 1 ]

\* TravelTimeModel.predict, lines 85-129.  answer is what self.model.predict
\* does with the feature array: << the point value >>, or << >> when it
\* raises.  The outcome: what predict raised (<< >>: nothing), what it
\* returned, and how many times it called the model.
predict(self, answer) ==
  IF ~ self.model_loaded
    THEN [ raised |-> << "Model not loaded" >>, result |-> << >>, model_calls |-> 0 ]
  ELSE IF Len(answer) = 0
    THEN [ raised |-> << "model error" >>, result |-> << >>, model_calls |-> 1 ]
  ELSE LET band == ConfidenceBand(self.model[1], answer[1])
       IN  [ raised |-> << >>,
             result |-> << [ predicted_time |-> answer[1],
                             lower_bound    |-> band.lower_bound,
                             upper_bound    |-> band.upper_bound ] >>,
             model_calls |-> 1 ]

\* What the model source holds.  kind: "missing" (no file, no blob),
\* "storage_error" (the storage client or the download raises), "corrupt"
\* (joblib.load raises) or "artifact"; feature_names_in is "absent" (no
\* feature_names_in_ attribute), "array" (an array of names) or "no_tolist"
\* (an attribute without a tolist method).
NoArtifact(kind) == [kind |-> kind, artifact |-> << >>, feature_names_in |-> "absent"]

Stored(artifact, feature_names_in) ==
  [kind |-> "artifact", artifact |-> << artifact >>, feature_names_in |-> feature_names_in]

\* the names an artifact declares
FeatureNamesIn == << "hour_of_day", "day_of_week", "historical_avg_time" >>

\* load_model_local that sets model_loaded before it reads the file
LoadModelLocalFlagFirst(self, source) ==
  IF source.kind # "artifact"
    THEN [self |-> [self EXCEPT !.model_loaded = TRUE], raised |-> TRUE]
    ELSE [self |-> [self EXCEPT !.model = source.artifact, !.model_loaded = TRUE],
          raised |-> FALSE]

\* load_model_local, lines 44-59: the object afterwards, and whether the
\* method raised
load_model_local(self, source) ==
  IF source.kind # "artifact"
    THEN [self |-> self, raised |-> TRUE]
    ELSE [self |-> [self EXCEPT !.model = source.artifact, !.model_loaded = TRUE],
          raised |-> FALSE]

\* load_model_from_gcs, lines 23-42
load_model_from_gcs(self, source) ==
  IF source.kind # "artifact"
    THEN [self |-> self, raised |-> TRUE]
    ELSE [self |-> [self EXCEPT !.model = source.artifact, !.model_loaded = TRUE],
          raised |-> FALSE]

\* load_model, lines 61-73
load_model(self, use_gcs, source) ==
  LET loaded == IF use_gcs THEN load_model_from_gcs(self, source)
                ELSE load_model_local(self, source)
  IN  IF loaded.raised THEN loaded
      ELSE IF source.feature_names_in = "absent" THEN loaded
      ELSE IF source.feature_names_in = "array"
        THEN [self |-> [loaded.self EXCEPT !.feature_names = << FeatureNamesIn >>],
              raised |-> FALSE]
      ELSE [self |-> loaded.self, raised |-> TRUE]

--------------------------------------------------------------------------
(* routes.py: POST /predict, predict_travel_time *)

\* SetKey writing the value under every key of the dict
SetKeyAll(features, key, value) == [ k \in DOMAIN features \cup {key} |-> value ]

\* SetKey storing ten times the value
SetKeyTenfold(features, key, value) ==
  [ k \in DOMAIN features \cup {key} |-> IF k = key THEN 10 * value ELSE features[k] ]

\* features[key] = value
SetKey(features, key, value) ==
  [ k \in DOMAIN features \cup {key} |-> IF k = key THEN value ELSE features[k] ]

\* RouteFallback with a band of +-25%
RouteFallbackWide(features) ==
  LET base_time == features.historical_avg_time
  IN  [ predicted_time |-> base_time,
        lower_bound    |-> (base_time * 75) \div 100,
        upper_bound    |-> (base_time * 125) \div 100 ]

\* RouteFallback with an upper bound of +5%
RouteFallbackNarrow(features) ==
  LET base_time == features.historical_avg_time
  IN  [ predicted_time |-> base_time,
        lower_bound    |-> (base_time * 85) \div 100,
        upper_bound    |-> (base_time * 105) \div 100 ]

\* the fallback when the model is not loaded (lines 147-150)
RouteFallback(features) ==
  LET base_time == features.historical_avg_time
  IN  [ predicted_time |-> base_time,
        lower_bound    |-> (base_time * 85) \div 100,
        upper_bound    |-> (base_time * 115) \div 100 ]

\* TrafficBlend with the two weights exchanged
TrafficBlendSwapped(predicted_time, traffic_multiplier) ==
  (predicted_time * (30 + 7 * traffic_multiplier)) \div 100

\* predicted_time * (0.7 + 0.3 * traffic_multiplier), the multiplier in tenths
TrafficBlend(predicted_time, traffic_multiplier) ==
  (predicted_time * (70 + 3 * traffic_multiplier)) \div 100

\* RealtimeWanted without the comparison with date.today()
RealtimeWantedAnyDate(s) == s.use_realtime

\* RealtimeWanted without the use_realtime flag
RealtimeWantedTodayOnly(s) == s.is_today

\* the condition of line 153
RealtimeWanted(s) == s.use_realtime /\ s.is_today

\* DirectionOf taking the direction from the destination's side
DirectionOfReversed(request) ==
  IF request.origin = "singapore" THEN "jb_to_singapore" ELSE "singapore_to_jb"

\* direction, line 183
DirectionOf(request) ==
  IF request.origin = "singapore" THEN "singapore_to_jb" ELSE "jb_to_singapore"

\* the call of lines 185-191
WaitTimeFor(s) ==
  estimate_wait_time(s.request.checkpoint, DirectionOf(s.request),
                     s.request.travel_time[1],
                     s.request.travel_date.weekday >= 5,
                     s.features.is_any_holiday = 1)

\* ClassifyInput taking the value from before the wait was added
ClassifyInputPreWait(s) ==
  s.predicted_time - s.wait_time_data[1].estimated_wait_minutes

\* the value handed to calculate_congestion_level on line 205
ClassifyInput(s) == s.predicted_time

\* lines 208-218; an alert is << >> (None) or << its text >>
SevereAlert == "Severe congestion expected. Consider alternative timing."

PeakAlert == "Heavy traffic during peak hours. Plan extra time."

HolidayAlert == "Holiday period - expect increased traffic at borders."

\* ComposeAlert giving the peak-hour warning for every high level
ComposeAlertHighAlways(congestion_level, features) ==
  LET alert == IF congestion_level = "severe" THEN << SevereAlert >>
               ELSE IF congestion_level = "high" THEN << PeakAlert >>
               ELSE << >>
  IN  IF features.is_any_holiday = 1
        THEN (IF Len(alert) > 0 THEN << alert[1] \o " " \o HolidayAlert >>
              ELSE << HolidayAlert >>)
        ELSE alert

\* ComposeAlert putting the holiday notice in front of the congestion alert
ComposeAlertHolidayFirst(congestion_level, features) ==
  LET alert == IF congestion_level = "severe" THEN << SevereAlert >>
               ELSE IF congestion_level = "high" /\ features.is_peak_hour = 1
                 THEN << PeakAlert >>
               ELSE << >>
  IN  IF features.is_any_holiday = 1
        THEN (IF Len(alert) > 0 THEN << HolidayAlert \o " " \o alert[1] >>
              ELSE << HolidayAlert >>)
        ELSE alert

ComposeAlert(congestion_level, features) ==
  LET alert == IF congestion_level = "severe" THEN << SevereAlert >>
               ELSE IF congestion_level = "high" /\ features.is_peak_hour = 1
                 THEN << PeakAlert >>
               ELSE << >>
  IN  IF features.is_any_holiday = 1
        THEN (IF Len(alert) > 0 THEN << alert[1] \o " " \o HolidayAlert >>
              ELSE << HolidayAlert >>)
        ELSE alert

\* the locals of a handler that has not run yet
NewInvocation(request, use_realtime, is_today) ==
  [ request          |-> request,
    use_realtime     |-> use_realtime,
    is_today         |-> is_today,
    pc               |-> "start",
    features         |-> << >>,
    predicted_time   |-> 0,
    lower_bound      |-> 0,
    upper_bound      |-> 0,
    estimate         |-> 0,      \* history: predicted_time as the model stage left it
    calls            |-> {},     \* history: the collaborators' methods called
    weather_answer   |-> << >>,  \* history: what the weather service gave, if asked
    traffic_data     |-> << >>,
    wait_time_data   |-> << >>,
    congestion_level |-> "",
    alert            |-> << >>,
    response         |-> << >>,
    error            |-> << >> ]

\* What the collaborators may answer.  The weather service: no usable
\* reading (<< >>) or a reading; the loaded model: a point value in milli;
\* the live-traffic source: data with a traffic_multiplier in tenths.
WeatherAnswers == { << >>, << [rain_mm |-> 25, temp_c |-> 270] >> }

ModelAnswers == { Minutes(20), Minutes(45) }

MaxMultiplierSteps == 4

Multipliers == { 5 * k : k \in 1..MaxMultiplierSteps }

\* line 131: engineer_features, the weather service answering `answer`
EngineerFeatures(i) ==
  /\ inv[i].pc = "start"
  /\ \E answer \in WeatherAnswers :
       inv' = [inv EXCEPT ![i].features =
                 engineer_features(inv[i].request.travel_date,
                                   inv[i].request.travel_time,
                                   inv[i].request.origin,
                                   inv[i].request.destination,
                                   inv[i].request.mode,
                                   settings.openweather_api_key, answer),
               ![i].weather_answer =
                  IF settings.openweather_api_key THEN answer ELSE << >>,
               ![i].calls =
                  IF settings.openweather_api_key
                    THEN inv[i].calls \cup {"get_current_weather"}
                    ELSE inv[i].calls,
               ![i].pc = "FeaturesComputed"]
  /\ UNCHANGED << db, clock, model, settings, call >>

\* lines 142-143: the model is loaded and answers `prediction`
ModelPredict(i) ==
  /\ inv[i].pc = "FeaturesComputed"
  /\ model.model_loaded
  /\ \E prediction \in ModelAnswers :
       LET band == ConfidenceBand(model.model[1], prediction)
       IN  inv' = [inv EXCEPT ![i].predicted_time = prediction,
                              ![i].lower_bound = band.lower_bound,
                              ![i].upper_bound = band.upper_bound,
                              ![i].estimate = prediction,
                              ![i].calls = inv[i].calls \cup {"predict"},
                              ![i].pc = "ModelEstimated"]
  /\ UNCHANGED << db, clock, model, settings, call >>

\* PredictionFailed that loses the error
PredictionFailedSilent(cause) == << >>

\* lines 229-231: HTTPException(500, "Prediction failed: " + str(e))
PredictionFailed(cause) == << "Prediction failed: " \o cause >>

\* what the loaded model raises with
ModelErrors == { "model error" }

\* lines 142-143, 127-129 of model.py and 229-231: the model raises, predict
\* re-raises, and the handler answers 500 "Prediction failed"
ModelRaises(i) ==
  /\ inv[i].pc = "FeaturesComputed"
  /\ model.model_loaded
  /\ \E cause \in ModelErrors :
       inv' = [inv EXCEPT ![i].error = PredictionFailed(cause),
                          ![i].calls = inv[i].calls \cup {"predict"},
                          ![i].pc = "Failed"]
  /\ UNCHANGED << db, clock, model, settings, call >>

\* lines 144-150
FallbackEstimate(i) ==
  /\ inv[i].pc = "FeaturesComputed"
  /\ ~ model.model_loaded
  /\ LET fb == RouteFallback(inv[i].features)
     IN  inv' = [inv EXCEPT ![i].predicted_time = fb.predicted_time,
                            ![i].lower_bound = fb.lower_bound,
                            ![i].upper_bound = fb.upper_bound,
                            ![i].estimate = fb.predicted_time,
                            ![i].pc = "ModelEstimated"]
  /\ UNCHANGED << db, clock, model, settings, call >>

\* lines 153-170: the live-traffic source returns data
TrafficAdjust(i) ==
  /\ inv[i].pc = "ModelEstimated"
  /\ RealtimeWanted(inv[i])
  /\ \E traffic_multiplier \in Multipliers :
       inv' = [inv EXCEPT
                 ![i].traffic_data = << [traffic_multiplier |-> traffic_multiplier] >>,
                 ![i].predicted_time =
                    TrafficBlend(inv[i].predicted_time, traffic_multiplier),
                 ![i].features = SetKey(inv[i].features,
                                        "realtime_traffic_multiplier",
                                        traffic_multiplier),
                 ![i].calls = inv[i].calls \cup {"get_live_travel_time"},
                 ![i].pc = "TrafficAdjusted"]
  /\ UNCHANGED << db, clock, model, settings, call >>

\* lines 153-165: the live-traffic source returns None (no key, a failed
\* request, a status other than OK)
TrafficUnavailable(i) ==
  /\ inv[i].pc = "ModelEstimated"
  /\ RealtimeWanted(inv[i])
  /\ inv' = [inv EXCEPT ![i].calls = inv[i].calls \cup {"get_live_travel_time"},
                        ![i].pc = "TrafficSkipped"]
  /\ UNCHANGED << db, clock, model, settings, call >>

\* line 153 false: the source is not asked
TrafficNotWanted(i) ==
  /\ inv[i].pc = "ModelEstimated"
  /\ ~ RealtimeWanted(inv[i])
  /\ inv' = [inv EXCEPT ![i].pc = "TrafficSkipped"]
  /\ UNCHANGED << db, clock, model, settings, call >>

\* lines 176-199
WaitAdjust(i) ==
  /\ inv[i].pc \in {"TrafficAdjusted", "TrafficSkipped"}
  /\ LET wait_time_data == WaitTimeFor(inv[i])
         estimated_wait == wait_time_data.estimated_wait_minutes
     IN  inv' = [inv EXCEPT
                   ![i].wait_time_data = << wait_time_data >>,
                   ![i].predicted_time = inv[i].predicted_time + estimated_wait,
                   ![i].upper_bound =
                      inv[i].upper_bound + wait_time_data.max_wait_minutes,
                   ![i].lower_bound =
                      inv[i].lower_bound + wait_time_data.min_wait_minutes,
                   ![i].features = SetKey(inv[i].features, "estimated_wait_time",
                                          estimated_wait),
                   ![i].pc = "WaitAdjusted"]
  /\ UNCHANGED << db, clock, model, settings, call >>

\* line 205
Classify(i) ==
  /\ inv[i].pc = "WaitAdjusted"
  /\ inv' = [inv EXCEPT
               ![i].congestion_level =
                  calculate_congestion_level(ClassifyInput(inv[i]), DefaultBaseTime),
               ![i].pc = "Classified"]
  /\ UNCHANGED << db, clock, model, settings, call >>

\* lines 208-227
Compose(i) ==
  /\ inv[i].pc = "Classified"
  /\ LET alert == ComposeAlert(inv[i].congestion_level, inv[i].features)
     IN  inv' = [inv EXCEPT
                   ![i].alert = alert,
                   ![i].response =
                      << [ predicted_time_minutes |-> inv[i].predicted_time,
                           lower_bound_minutes    |-> inv[i].lower_bound,
                           upper_bound_minutes    |-> inv[i].upper_bound,
                           congestion_level       |-> inv[i].congestion_level,
                           features_used          |-> inv[i].features,
                           alert                  |-> alert ] >>,
                   ![i].pc = "Composed"]
  /\ UNCHANGED << db, clock, model, settings, call >>

--------------------------------------------------------------------------
(* The requests and the states of the shared objects *)

HoursPerDay == 24

Origins == {"singapore", "jb"}

Modes == {"car", "taxi", "bus"}

Checkpoints == {"woodlands", "tuas"}

\* a plain weekday, a plain Saturday, a weekday in the June school holidays,
\* a Sunday that is a Singapore public holiday, a Malaysian public holiday
Dates ==
  { [month |-> 2, day |-> 10, weekday |-> 1, sg_holiday |-> FALSE, my_holiday |-> FALSE],
    [month |-> 2, day |-> 15, weekday |-> 5, sg_holiday |-> FALSE, my_holiday |-> FALSE],
    [month |-> 6, day |-> 5,  weekday |-> 2, sg_holiday |-> FALSE, my_holiday |-> FALSE],
    [month |-> 8, day |-> 9,  weekday |-> 6, sg_holiday |-> TRUE,  my_holiday |-> FALSE],
    [month |-> 8, day |-> 31, weekday |-> 0, sg_holiday |-> FALSE, my_holiday |-> TRUE] }

Destination(origin) == IF origin = "singapore" THEN "jb" ELSE "singapore"

RequestsOver(origins, dates, hours, modes, checkpoints) ==
  { [ origin      |-> o,
      destination |-> Destination(o),
      travel_date |-> d,
      travel_time |-> << h, 0 >>,
      mode        |-> m,
      checkpoint  |-> c ] :
    o \in origins, d \in dates, h \in hours, m \in modes, c \in checkpoints }

Requests == RequestsOver(Origins, Dates, 0..(HoursPerDay - 1), {"car"}, Checkpoints)

\* TravelTimeModel.__init__
NoModel == [model |-> << >>, feature_names |-> << >>, model_loaded |-> FALSE]

\* the object after a successful load_model of `artifact`
Loaded(artifact) ==
  [model |-> << artifact >>, feature_names |-> << >>, model_loaded |-> TRUE]

Member(minutes) == << minutes >>

NoPredictMember == << >>

Artifacts ==
  { [has_estimators |-> FALSE, estimators |-> << >>],
    [has_estimators |-> TRUE,
     estimators |-> << Member(28), Member(30), Member(32), Member(30), Member(30) >>],
    [has_estimators |-> TRUE, estimators |-> << NoPredictMember >>] }

ModelStates == {NoModel} \cup { Loaded(a) : a \in Artifacts }

NoCall == [fn |-> "none"]

Invocations(ids, requests) ==
  { [i \in ids |-> NewInvocation(r, u, t)] :
    r \in requests, u \in BOOLEAN, t \in BOOLEAN }

--------------------------------------------------------------------------
(* One /predict invocation against any state of the model object *)

\* (no weather key here: the weather reading reaches features_used only,
\* and SpecPair runs the handler with and without the key)
Init ==
  /\ model \in ModelStates
  /\ settings = [openweather_api_key |-> FALSE]
  /\ inv \in Invocations({1}, Requests)
  /\ call = NoCall
  /\ db = << >>
  /\ clock = 0

Next ==
  \/ \E i \in DOMAIN inv : EngineerFeatures(i)
  \/ \E i \in DOMAIN inv : ModelPredict(i)
  \/ \E i \in DOMAIN inv : ModelRaises(i)
  \/ \E i \in DOMAIN inv : FallbackEstimate(i)
  \/ \E i \in DOMAIN inv : TrafficAdjust(i)
  \/ \E i \in DOMAIN inv : TrafficUnavailable(i)
  \/ \E i \in DOMAIN inv : TrafficNotWanted(i)
  \/ \E i \in DOMAIN inv : WaitAdjust(i)
  \/ \E i \in DOMAIN inv : Classify(i)
  \/ \E i \in DOMAIN inv : Compose(i)

Spec == Init /\ [][Next]_vars

--------------------------------------------------------------------------
(* Two /predict invocations of the same request at the same instant, the   *)
(* model not loaded; each is answered by the collaborators on its own.     *)

PairHours == {3, 8, 12, 18}

PairRequests ==
  RequestsOver({"singapore"}, Dates, PairHours, {"car"}, {"woodlands"})

InitPair ==
  /\ model = NoModel
  /\ settings \in [openweather_api_key : BOOLEAN]
  /\ inv \in Invocations({1, 2}, PairRequests)
  /\ call = NoCall
  /\ db = << >>
  /\ clock = 0

NextPair ==
  \/ \E i \in DOMAIN inv : EngineerFeatures(i)
  \/ \E i \in DOMAIN inv : FallbackEstimate(i)
  \/ \E i \in DOMAIN inv : TrafficAdjust(i)
  \/ \E i \in DOMAIN inv : TrafficUnavailable(i)
  \/ \E i \in DOMAIN inv : TrafficNotWanted(i)
  \/ \E i \in DOMAIN inv : WaitAdjust(i)
  \/ \E i \in DOMAIN inv : Classify(i)
  \/ \E i \in DOMAIN inv : Compose(i)

SpecPair == InitPair /\ [][NextPair]_vars

--------------------------------------------------------------------------
(* Direct calls of estimate_wait_time: the same arguments without and with *)
(* is_holiday                                                              *)

MaxWaitHour == 24

WaitCheckpoints == Checkpoints \cup {"other"}

WaitDirections == {"singapore_to_jb", "jb_to_singapore"}

InitWait ==
  /\ model = NoModel
  /\ settings = [openweather_api_key |-> FALSE]
  /\ inv = << >>
  /\ call \in [ fn         : {"estimate_wait_time"},
                checkpoint : WaitCheckpoints,
                direction  : WaitDirections,
                hour       : 0..MaxWaitHour,
                is_weekend : BOOLEAN,
                plain      : {<< >>},
                holiday    : {<< >>} ]
  /\ db = << >>
  /\ clock = 0

EstimatePlain ==
  /\ call.fn = "estimate_wait_time"
  /\ Len(call.plain) = 0
  /\ call' = [call EXCEPT !.plain =
                << estimate_wait_time(call.checkpoint, call.direction, call.hour,
                                      call.is_weekend, FALSE) >>]
  /\ UNCHANGED << db, clock, model, settings, inv >>

EstimateHoliday ==
  /\ call.fn = "estimate_wait_time"
  /\ Len(call.holiday) = 0
  /\ call' = [call EXCEPT !.holiday =
                << estimate_wait_time(call.checkpoint, call.direction, call.hour,
                                      call.is_weekend, TRUE) >>]
  /\ UNCHANGED << db, clock, model, settings, inv >>

NextWait == EstimatePlain \/ EstimateHoliday

SpecWait == InitWait /\ [][NextWait]_vars

--------------------------------------------------------------------------
(* Direct calls of calculate_congestion_level on two predicted times       *)
(* p1 <= p2 and one base time                                              *)

MaxPredictedMinutes == 70

BaseTimes == { Minutes(20), DefaultBaseTime }

InitClassify ==
  /\ model = NoModel
  /\ settings = [openweather_api_key |-> FALSE]
  /\ inv = << >>
  /\ call \in { [ fn |-> "calculate_congestion_level", base_time |-> b,
                  p1 |-> Minutes(a), p2 |-> Minutes(c),
                  r1 |-> "", r2 |-> "" ] :
                b \in BaseTimes,
                a \in 0..MaxPredictedMinutes,
                c \in 0..MaxPredictedMinutes }
  /\ call.p1 <= call.p2
  /\ db = << >>
  /\ clock = 0

ClassifyFirst ==
  /\ call.fn = "calculate_congestion_level"
  /\ call.r1 = ""
  /\ call' = [call EXCEPT !.r1 = calculate_congestion_level(call.p1, call.base_time)]
  /\ UNCHANGED << db, clock, model, settings, inv >>

ClassifySecond ==
  /\ call.fn = "calculate_congestion_level"
  /\ call.r2 = ""
  /\ call' = [call EXCEPT !.r2 = calculate_congestion_level(call.p2, call.base_time)]
  /\ UNCHANGED << db, clock, model, settings, inv >>

NextClassify == ClassifyFirst \/ ClassifySecond

SpecClassify == InitClassify /\ [][NextClassify]_vars

--------------------------------------------------------------------------
(* Direct calls of the confidence-band part of TravelTimeModel.predict     *)

MaxMembers == 5

MemberChoices == { Member(28), Member(30), Member(32), NoPredictMember }

RECURSIVE SeqsUpTo(_, _)
SeqsUpTo(S, n) ==
  IF n = 0 THEN { << >> }
  ELSE LET shorter == SeqsUpTo(S, n - 1)
       IN  shorter \cup { Append(s, x) : s \in { t \in shorter : Len(t) = n - 1 }, x \in S }

BandPredictions == { Minutes(1), Minutes(30) }

InitBand ==
  /\ model = NoModel
  /\ settings = [openweather_api_key |-> FALSE]
  /\ inv = << >>
  /\ call \in [ fn         : {"predict"},
                artifact   : [ has_estimators : BOOLEAN,
                               estimators : SeqsUpTo(MemberChoices, MaxMembers) ],
                prediction : BandPredictions,
                band       : {<< >>} ]
  /\ db = << >>
  /\ clock = 0

PredictBand ==
  /\ call.fn = "predict"
  /\ Len(call.band) = 0
  /\ call' = [call EXCEPT !.band = << ConfidenceBand(call.artifact, call.prediction) >>]
  /\ UNCHANGED << db, clock, model, settings, inv >>

NextBand == PredictBand

SpecBand == InitBand /\ [][NextBand]_vars

--------------------------------------------------------------------------
(* Direct calls of TravelTimeModel.predict on the object in any state:     *)
(* not loaded, a model without estimators_, ensembles of up to             *)
(* SampleSize + MaxExtraMembers members                                    *)

MaxExtraMembers == 2

\* n members: the first is x, the others up to the SampleSize-th are y, the
\* ones after that are z
EnsembleOf(n, x, y, z) ==
  [ i \in 1..n |-> IF i = 1 THEN x ELSE IF i <= SampleSize THEN y ELSE z ]

EnsembleSizes == (0..2) \cup ((SampleSize - 1)..(SampleSize + MaxExtraMembers))

PredictArtifacts ==
  { [has_estimators |-> FALSE, estimators |-> << >>] }
  \cup { [has_estimators |-> TRUE, estimators |-> EnsembleOf(n, x, y, z)] :
           n \in EnsembleSizes, x \in MemberChoices, y \in MemberChoices,
           z \in MemberChoices }

PointAnswers == { << >>, << Minutes(1) >>, << Minutes(30) >> }

InitPredict ==
  /\ model \in {NoModel} \cup { Loaded(a) : a \in PredictArtifacts }
  /\ settings = [openweather_api_key |-> FALSE]
  /\ inv = << >>
  /\ call \in [ fn : {"TravelTimeModel.predict"}, answer : PointAnswers,
                 outcome : {<< >>} ]
  /\ db = << >>
  /\ clock = 0

\* a caller that checked model_loaded, the way the /predict handler does
PredictLoaded ==
  /\ call.fn = "TravelTimeModel.predict"
  /\ Len(call.outcome) = 0
  /\ model.model_loaded
  /\ call' = [call EXCEPT !.outcome = << predict(model, call.answer) >>]
  /\ UNCHANGED << db, clock, model, settings, inv >>

\* a caller that did not check
PredictNotLoaded ==
  /\ call.fn = "TravelTimeModel.predict"
  /\ Len(call.outcome) = 0
  /\ ~ model.model_loaded
  /\ call' = [call EXCEPT !.outcome = << predict(model, call.answer) >>]
  /\ UNCHANGED << db, clock, model, settings, inv >>

NextPredict == PredictLoaded \/ PredictNotLoaded

SpecPredict == InitPredict /\ [][NextPredict]_vars

--------------------------------------------------------------------------
(* Two /predict invocations of any two requests, their steps interleaved   *)
(* in every order, against the model object in any state after startup.   *)

ConcurrentRequests ==
  { r \in Requests :
      /\ r.checkpoint = "woodlands"
      /\ \/ (r.origin = "singapore" /\ r.travel_time[1] = 8
              /\ r.travel_date.month = 2 /\ r.travel_date.weekday = 1)
         \/ (r.origin = "jb" /\ r.travel_time[1] = 18
              /\ r.travel_date.month = 6) }

ConcurrentModelStates ==
  { NoModel,
    Loaded([has_estimators |-> TRUE,
            estimators |-> << Member(28), Member(30), Member(32), Member(30), Member(30) >>]) }

InitConcurrent ==
  /\ model \in ConcurrentModelStates
  /\ settings = [openweather_api_key |-> TRUE]
  /\ inv \in { [i \in {1, 2} |-> NewInvocation(r[i], TRUE, t[i])] :
                r \in [{1, 2} -> ConcurrentRequests], t \in [{1, 2} -> BOOLEAN] }
  /\ call = NoCall
  /\ db = << >>
  /\ clock = 0

NextConcurrent ==
  \/ \E i \in DOMAIN inv : EngineerFeatures(i)
  \/ \E i \in DOMAIN inv : ModelPredict(i)
  \/ \E i \in DOMAIN inv : ModelRaises(i)
  \/ \E i \in DOMAIN inv : FallbackEstimate(i)
  \/ \E i \in DOMAIN inv : TrafficAdjust(i)
  \/ \E i \in DOMAIN inv : TrafficUnavailable(i)
  \/ \E i \in DOMAIN inv : TrafficNotWanted(i)
  \/ \E i \in DOMAIN inv : WaitAdjust(i)
  \/ \E i \in DOMAIN inv : Classify(i)
  \/ \E i \in DOMAIN inv : Compose(i)

SpecConcurrent == InitConcurrent /\ [][NextConcurrent]_vars

--------------------------------------------------------------------------
(* Startup (main.py lifespan, initialize_model) followed by one /predict    *)
(* invocation; call is the startup's position and what it found.           *)

LoadFailures == { NoArtifact("missing"), NoArtifact("storage_error"), NoArtifact("corrupt") }

LoadSources ==
  LoadFailures
  \cup { Stored(a, f) : a \in Artifacts, f \in {"absent", "array", "no_tolist"} }

InitStartup ==
  /\ model = NoModel
  /\ settings \in [openweather_api_key : {FALSE}, use_gcs : BOOLEAN]
  /\ inv \in Invocations({1}, PairRequests)
  /\ call \in [ fn : {"initialize_model"}, pc : {"starting"}, source : LoadSources,
                 load_raised : {FALSE} ]
  /\ db = << >>
  /\ clock = 0

\* model.py lines 136-143 and main.py lines 29-35: load_model runs, what it
\* raises is caught and logged, and the application starts serving
InitializeModel ==
  /\ call.fn = "initialize_model"
  /\ call.pc = "starting"
  /\ LET r == load_model(model, settings.use_gcs, call.source)
     IN  /\ model' = r.self
         /\ call' = [call EXCEPT !.pc = "serving", !.load_raised = r.raised]
  /\ UNCHANGED << db, clock, settings, inv >>

Serving == call.fn = "initialize_model" /\ call.pc = "serving"

NextStartup ==
  \/ InitializeModel
  \/ \E i \in DOMAIN inv : Serving /\ EngineerFeatures(i)
  \/ \E i \in DOMAIN inv : Serving /\ ModelPredict(i)
  \/ \E i \in DOMAIN inv : Serving /\ ModelRaises(i)
  \/ \E i \in DOMAIN inv : Serving /\ FallbackEstimate(i)
  \/ \E i \in DOMAIN inv : Serving /\ TrafficAdjust(i)
  \/ \E i \in DOMAIN inv : Serving /\ TrafficUnavailable(i)
  \/ \E i \in DOMAIN inv : Serving /\ TrafficNotWanted(i)
  \/ \E i \in DOMAIN inv : Serving /\ WaitAdjust(i)
  \/ \E i \in DOMAIN inv : Serving /\ Classify(i)
  \/ \E i \in DOMAIN inv : Serving /\ Compose(i)

\* the startup is sequential code: it runs to its end
SpecStartup == InitStartup /\ [][NextStartup]_vars /\ WF_vars(InitializeModel)

--------------------------------------------------------------------------
(* The feature array TravelTimeModel.predict hands to the model.           *)

\* Python's ascending order (sorted) of the key names the service uses
KeyOrder ==
  << "day_of_month", "day_of_week", "direction_sg_to_jb", "estimated_wait_time",
     "historical_avg_time", "hour_of_day", "is_any_holiday", "is_evening_peak",
     "is_morning_peak", "is_my_holiday", "is_my_school_holiday", "is_peak_hour",
     "is_sg_holiday", "is_sg_school_holiday", "is_weekend", "minute_of_hour",
     "mode_bus", "mode_car", "mode_taxi", "month", "rain_mm",
     "realtime_traffic_multiplier", "temp_c" >>

\* sorted(features.keys())
SortedKeys(features) ==
  LET Present(k) == k \in DOMAIN features
  IN  SelectSeq(KeyOrder, Present)

\* the feature array with the branch on self.feature_names left out
FeatureArraySortedOnly(self, features) ==
  LET sorted_keys == SortedKeys(features)
  IN  [ i \in 1..Len(sorted_keys) |-> features[sorted_keys[i]] ]

\* predict, lines 89-96.  self.feature_names is << >> (None) or << names >>;
\* `if self.feature_names:` is false for None and for an empty list.
feature_array(self, features) ==
  IF Len(self.feature_names) = 1 /\ Len(self.feature_names[1]) > 0
    THEN LET names == self.feature_names[1]
         IN  [ i \in 1..Len(names) |->
                 IF names[i] \in DOMAIN features THEN features[names[i]] ELSE 0 ]
    ELSE LET sorted_keys == SortedKeys(features)
         IN  [ i \in 1..Len(sorted_keys) |-> features[sorted_keys[i]] ]

\* the model object after load_model found feature_names_in_ on the artifact
Declaring(artifact, names) ==
  [model |-> << artifact >>, feature_names |-> << names >>, model_loaded |-> TRUE]

MaxFeatureValue == 2

ArrayKeys == {"hour_of_day", "day_of_week", "historical_avg_time", "rain_mm"}

\* feature dictionaries over any part of ArrayKeys
ArrayFeatures ==
  UNION { [ks -> 1..MaxFeatureValue] : ks \in SUBSET ArrayKeys }

\* declarations: all present keys in another order, one with names the
\* dictionary never has, one that leaves keys out
DeclaredNames ==
  { << "rain_mm", "hour_of_day", "historical_avg_time", "day_of_week" >>,
    << "is_weekend", "hour_of_day", "month" >>,
    FeatureNamesIn }

PlainArtifact == [has_estimators |-> FALSE, estimators |-> << >>]

InitArray ==
  /\ model \in {Loaded(PlainArtifact)}
                 \cup { Declaring(PlainArtifact, names) : names \in DeclaredNames }
  /\ settings = [openweather_api_key |-> FALSE]
  /\ inv = << >>
  /\ call \in [ fn : {"feature_array"}, features : ArrayFeatures, outcome : {<< >>} ]
  /\ db = << >>
  /\ clock = 0

\* line 92
PrepareDeclared ==
  /\ call.fn = "feature_array"
  /\ Len(call.outcome) = 0
  /\ Len(model.feature_names) = 1
  /\ call' = [call EXCEPT !.outcome = << feature_array(model, call.features) >>]
  /\ UNCHANGED << db, clock, model, settings, inv >>

\* lines 95-96
PrepareSorted ==
  /\ call.fn = "feature_array"
  /\ Len(call.outcome) = 0
  /\ Len(model.feature_names) = 0
  /\ call' = [call EXCEPT !.outcome = << feature_array(model, call.features) >>]
  /\ UNCHANGED << db, clock, model, settings, inv >>

NextArray == PrepareDeclared \/ PrepareSorted

SpecArray == InitArray /\ [][NextArray]_vars

--------------------------------------------------------------------------
(* Direct calls of engineer_features for every mode, hour and weekday,     *)
(* with and without a weather key, and the array predict builds from the   *)
(* result for a model trained on the training pipeline's columns.          *)

\* ml/feature_engineering.py, get_feature_columns, with one name misspelt
GetFeatureColumnsRenamed ==
  << "hour_of_day", "minute_of_hour", "day_of_week", "day_of_month", "month",
     "is_weekend", "is_morning_peak", "is_evening_peak", "is_peak_hour",
     "is_sg_holiday", "is_my_holiday", "is_sg_school_holiday",
     "is_my_school_holiday", "is_any_holiday", "direction_sg_to_jb",
     "mode_car", "mode_taxi", "mode_bus", "rain_mm", "temp_c",
     "historical_avg_travel_time" >>

\* ml/feature_engineering.py, get_feature_columns
get_feature_columns ==
  << "hour_of_day", "minute_of_hour", "day_of_week", "day_of_month", "month",
     "is_weekend", "is_morning_peak", "is_evening_peak", "is_peak_hour",
     "is_sg_holiday", "is_my_holiday", "is_sg_school_holiday",
     "is_my_school_holiday", "is_any_holiday", "direction_sg_to_jb",
     "mode_car", "mode_taxi", "mode_bus", "rain_mm", "temp_c",
     "historical_avg_time" >>

\* (month, day): outside every school holiday, in Singapore's only, in
\* Malaysia's only, in both
FeatureDays == { << 2, 10 >>, << 3, 10 >>, << 3, 25 >>, << 6, 5 >> }

FeatureDates ==
  { [month |-> md[1], day |-> md[2], weekday |-> w, sg_holiday |-> s, my_holiday |-> m] :
      md \in FeatureDays, w \in 0..6, s \in BOOLEAN, m \in BOOLEAN }

FeatureRequests ==
  RequestsOver(Origins, FeatureDates, 0..(HoursPerDay - 1), Modes, {"woodlands"})

InitFeatures ==
  /\ model = Declaring(PlainArtifact, get_feature_columns)
  /\ settings \in [openweather_api_key : BOOLEAN]
  /\ inv = << >>
  /\ call \in [ fn : {"engineer_features"}, request : FeatureRequests,
                 features : {<< >>}, array : {<< >>} ]
  /\ db = << >>
  /\ clock = 0

\* utils.py lines 219-221: no weather key
FeaturesDefaultWeather ==
  /\ call.fn = "engineer_features"
  /\ Len(call.features) = 0
  /\ ~ settings.openweather_api_key
  /\ call' = [call EXCEPT !.features =
                << engineer_features(call.request.travel_date, call.request.travel_time,
                                     call.request.origin, call.request.destination,
                                     call.request.mode, FALSE, << >>) >>]
  /\ UNCHANGED << db, clock, model, settings, inv >>

\* utils.py lines 214-218: a weather key, the service answers or fails
FeaturesWithWeather ==
  /\ call.fn = "engineer_features"
  /\ Len(call.features) = 0
  /\ settings.openweather_api_key
  /\ \E answer \in WeatherAnswers :
       call' = [call EXCEPT !.features =
                  << engineer_features(call.request.travel_date, call.request.travel_time,
                                       call.request.origin, call.request.destination,
                                       call.request.mode, TRUE, answer) >>]
  /\ UNCHANGED << db, clock, model, settings, inv >>

\* routes.py line 143 -> model.py lines 90-92: the dictionary goes to predict
\* as engineer_features returned it
PrepareArray ==
  /\ call.fn = "engineer_features"
  /\ Len(call.features) = 1
  /\ Len(call.array) = 0
  /\ call' = [call EXCEPT !.array = << feature_array(model, call.features[1]) >>]
  /\ UNCHANGED << db, clock, model, settings, inv >>

NextFeatures == FeaturesDefaultWeather \/ FeaturesWithWeather \/ PrepareArray

SpecFeatures == InitFeatures /\ [][NextFeatures]_vars

--------------------------------------------------------------------------
(* The school-holiday rules of the training pipeline, and direct calls of  *)
(* the serving and the training rules on every day of the year.            *)

\* add_holiday_features.is_sg_school_holiday: returns 1 or 0
is_sg_school_holiday(date) ==
  LET month == date.month
      day   == date.day
  IN  IF month = 3 /\ 8 <= day /\ day <= 16 THEN 1
      ELSE IF (month = 5 /\ day >= 27) \/ (month = 6 /\ day <= 25) THEN 1
      ELSE IF month = 9 /\ 2 <= day /\ day <= 10 THEN 1
      ELSE IF (month = 11 /\ day >= 18) \/ month = 12 THEN 1
      ELSE 0

\* add_holiday_features.is_my_school_holiday: returns 1 or 0
is_my_school_holiday(date) ==
  LET month == date.month
      day   == date.day
  IN  IF month = 3 /\ 20 <= day /\ day <= 30 THEN 1
      ELSE IF (month = 5 /\ day >= 27) \/ (month = 6 /\ day <= 11) THEN 1
      ELSE IF (month = 11 /\ day >= 20) \/ month = 12 THEN 1
      ELSE 0

\* the days of a month (February of a leap year)
DaysIn(month) ==
  IF month = 2 THEN 29 ELSE IF month \in {4, 6, 9, 11} THEN 30 ELSE 31

CalendarDays ==
  { date \in [month : 1..12, day : 1..31] : date.day <= DaysIn(date.month) }

InitSchool ==
  /\ model = NoModel
  /\ settings = [openweather_api_key |-> FALSE]
  /\ inv = << >>
  /\ call \in [ fn : {"school_holiday"}, date : CalendarDays,
                 serving : {<< >>}, training : {<< >>} ]
  /\ db = << >>
  /\ clock = 0

\* utils.py lines 196-197: the two serving flags of the date
ServingCheck ==
  /\ call.fn = "school_holiday"
  /\ Len(call.serving) = 0
  /\ call' = [call EXCEPT !.serving =
                << [ sg |-> Flag(is_school_holiday_sg(call.date)),
                     my |-> Flag(is_school_holiday_my(call.date)) ] >>]
  /\ UNCHANGED << db, clock, model, settings, inv >>

\* feature_engineering.py lines 100-101: the two training flags of the date
TrainingCheck ==
  /\ call.fn = "school_holiday"
  /\ Len(call.training) = 0
  /\ call' = [call EXCEPT !.training =
                << [ sg |-> is_sg_school_holiday(call.date),
                     my |-> is_my_school_holiday(call.date) ] >>]
  /\ UNCHANGED << db, clock, model, settings, inv >>

NextSchool == ServingCheck \/ TrainingCheck

SpecSchool == InitSchool /\ [][NextSchool]_vars

--------------------------------------------------------------------------
(* /simulate next to a /predict invocation of its first scenario.          *)

\* lines 229-231 for /simulate: HTTPException(500, "Simulation failed: ...")
SimulationFailed(cause) == << "Simulation failed: " \o cause >>

\* the body of the loop of simulate_scenarios (routes.py lines 245-271) for
\* one scenario; answer is what the loaded model gives for its features
simulate_prediction(self, scenario, answer) ==
  LET features == engineer_features(scenario.travel_date, scenario.travel_time,
                                    scenario.origin, scenario.destination,
                                    scenario.mode, FALSE, << >>)
      estimate == IF self.model_loaded
                    THEN predict(self, << answer >>).result[1]
                    ELSE RouteFallback(features)
  IN  [ date             |-> scenario.travel_date,
        time             |-> scenario.travel_time,
        predicted_time   |-> estimate.predicted_time,
        lower_bound      |-> estimate.lower_bound,
        upper_bound      |-> estimate.upper_bound,
        congestion_level |-> calculate_congestion_level(estimate.predicted_time,
                                                        DefaultBaseTime) ]

MaxScenarios == 2

SimHours == {0, 6, 8}

SimDates == { d \in Dates : d.month = 2 }

SimRequests == RequestsOver(Origins, SimDates, SimHours, {"car"}, {"woodlands"})

\* the scenarios after the first
SimExtras == RequestsOver({"jb"}, SimDates, {18}, {"car"}, {"woodlands"})

InitSimulate ==
  /\ model \in ModelStates
  /\ settings = [openweather_api_key |-> FALSE]
  /\ inv \in Invocations({1}, SimRequests)
  /\ \E extras \in SeqsUpTo(SimExtras, MaxScenarios - 1) :
       call = [ fn          |-> "simulate_scenarios",
                scenarios   |-> << inv[1].request >> \o extras,
                pc          |-> "start",
                predictions |-> << >>,
                error       |-> << >> ]
  /\ db = << >>
  /\ clock = 0

\* lines 241-273: every scenario is estimated
SimulateScenarios ==
  /\ call.fn = "simulate_scenarios"
  /\ call.pc = "start"
  /\ \E answers \in [1..Len(call.scenarios) -> ModelAnswers] :
       call' = [call EXCEPT
                  !.predictions =
                     [ k \in 1..Len(call.scenarios) |->
                         simulate_prediction(model, call.scenarios[k], answers[k]) ],
                  !.pc = "returned"]
  /\ UNCHANGED << db, clock, model, settings, inv >>

\* lines 257 and 275-277: the loaded model raises for some scenario
SimulateRaises ==
  /\ call.fn = "simulate_scenarios"
  /\ call.pc = "start"
  /\ model.model_loaded
  /\ \E cause \in ModelErrors :
       call' = [call EXCEPT !.error = SimulationFailed(cause), !.pc = "failed"]
  /\ UNCHANGED << db, clock, model, settings, inv >>

NextSimulate ==
  \/ SimulateScenarios
  \/ SimulateRaises
  \/ \E i \in DOMAIN inv : EngineerFeatures(i)
  \/ \E i \in DOMAIN inv : ModelPredict(i)
  \/ \E i \in DOMAIN inv : ModelRaises(i)
  \/ \E i \in DOMAIN inv : FallbackEstimate(i)
  \/ \E i \in DOMAIN inv : TrafficAdjust(i)
  \/ \E i \in DOMAIN inv : TrafficUnavailable(i)
  \/ \E i \in DOMAIN inv : TrafficNotWanted(i)
  \/ \E i \in DOMAIN inv : WaitAdjust(i)
  \/ \E i \in DOMAIN inv : Classify(i)
  \/ \E i \in DOMAIN inv : Compose(i)

SpecSimulate == InitSimulate /\ [][NextSimulate]_vars

--------------------------------------------------------------------------
(* The crossings table: /crossings/submit and /crossings/recent.           *)
(* A timestamp text is [date, sep, time, frac]: the day number (the        *)
(* YYYY-MM-DD part), the separator character, the hour of the day (the     *)
(* HH:MM:SS part) and the fraction of a second, << >> when the text has    *)
(* none.  Texts of this shape compare character by character, so field by  *)
(* field in that order.                                                    *)

\* the code point of a separator character
CharCode(c) == IF c = "T" THEN 84 ELSE 32

\* SQLite's text comparison a >= b (database.py line 154)
TextGE(a, b) ==
  \/ a.date > b.date
  \/ /\ a.date = b.date
     /\ \/ CharCode(a.sep) > CharCode(b.sep)
        \/ /\ CharCode(a.sep) = CharCode(b.sep)
           /\ \/ a.time > b.time
              \/ /\ a.time = b.time
                 /\ \/ Len(b.frac) = 0
                    \/ (Len(a.frac) = 1 /\ a.frac[1] >= b.frac[1])

\* datetime.utcnow().isoformat() at hour t, the n-th submission: submissions
\* are stamped in the order they arrive, also within one hour
isoformat(t, n) ==
  [date |-> t \div HoursPerDay, sep |-> "T", time |-> t % HoursPerDay, frac |-> << n >>]

\* SQLite's datetime(...): 'YYYY-MM-DD HH:MM:SS'
SqliteDatetime(t) ==
  [date |-> t \div HoursPerDay, sep |-> " ", time |-> t % HoursPerDay, frac |-> << >>]

\* datetime('now', '-' || hours || ' hours')
Cutoff(now, hours) == SqliteDatetime(now - hours)

\* ORDER BY timestamp DESC
RECURSIVE OrderDesc(_)
OrderDesc(rows) ==
  IF rows = {} THEN << >>
  ELSE LET first == CHOOSE r \in rows :
                      \A o \in rows : TextGE(r.timestamp, o.timestamp)
       IN  << first >> \o OrderDesc(rows \ {first})

\* LIMIT n
Limit(rows, n) == SubSeq(rows, 1, IF Len(rows) < n THEN Len(rows) ELSE n)

\* HistoricalDataDB.get_recent_crossings; checkpoint is << >> (None) or
\* << name >>
DbGetRecentCrossings(table, now, checkpoint, hours, limit) ==
  LET selected == { table[k] : k \in
                     { j \in DOMAIN table :
                         /\ TextGE(table[j].timestamp, Cutoff(now, hours))
                         /\ Len(checkpoint) = 1 => table[j].checkpoint = checkpoint[1] } }
  IN  Limit(OrderDesc(selected), limit)

\* HistoricalDataDB.add_crossing: the table with the new row (lastrowid is
\* its id).  submitted_at is history: the hour of the submission.
DbAddCrossing(table, crossing_data) ==
  Append(table, [ id           |-> Len(table) + 1,
                  timestamp    |-> crossing_data.timestamp,
                  checkpoint   |-> crossing_data.checkpoint,
                  submitted_at |-> crossing_data.submitted_at ])

MaxClock == 36

MaxCrossings == 2

\* values of the hours and limit parameters (1..168 and 1..500 are allowed)
QueryHours == {6, 12, 24}

QueryLimits == {1, 2}

QueryCheckpoints == { << >> } \cup { << c >> : c \in Checkpoints }

InitCrossings ==
  /\ model = NoModel
  /\ settings = [openweather_api_key |-> FALSE]
  /\ inv = << >>
  /\ call = NoCall
  /\ db = << >>
  /\ clock = 0

\* six hours pass
Tick ==
  /\ clock + 6 <= MaxClock
  /\ clock' = clock + 6
  /\ UNCHANGED << model, settings, inv, call, db >>

\* routes.py lines 435-465
SubmitCrossing ==
  /\ Len(db) < MaxCrossings
  /\ \E checkpoint \in Checkpoints :
       /\ db' = DbAddCrossing(db, [ timestamp    |-> isoformat(clock, Len(db) + 1),
                                    checkpoint   |-> checkpoint,
                                    submitted_at |-> clock ])
       /\ call' = [ fn |-> "submit_crossing", status |-> "success",
                    crossing_id |-> Len(db) + 1 ]
  /\ UNCHANGED << model, settings, inv, clock >>

\* routes.py lines 480-497
GetRecentCrossings ==
  /\ \E checkpoint \in QueryCheckpoints, hours \in QueryHours, limit \in QueryLimits :
       LET crossings == DbGetRecentCrossings(db, clock, checkpoint, hours, limit)
       IN  call' = [ fn |-> "get_recent_crossings", checkpoint |-> checkpoint,
                     hours |-> hours, limit |-> limit,
                     count |-> Len(crossings), crossings |-> crossings ]
  /\ UNCHANGED << model, settings, inv, db, clock >>

NextCrossings == Tick \/ SubmitCrossing \/ GetRecentCrossings

SpecCrossings == InitCrossings /\ [][NextCrossings]_vars

--------------------------------------------------------------------------
(* Properties *)

AfterModelStage ==
  {"ModelEstimated", "TrafficAdjusted", "TrafficSkipped", "WaitAdjusted",
   "Classified", "Composed"}

\* C1: after each stage from the model estimate on, and in the returned
\* result, 0 <= lower_bound <= predicted <= upper_bound, for every request,
\* model state, traffic multiplier and wait time.
C1_BoundsOrdered ==
  \A i \in DOMAIN inv :
    inv[i].pc \in AfterModelStage =>
      /\ 0 <= inv[i].lower_bound
      /\ inv[i].lower_bound <= inv[i].predicted_time
      /\ inv[i].predicted_time <= inv[i].upper_bound

\* the steps of the handler's position that the stage order allows
StageSteps ==
  { << "start", "FeaturesComputed" >>,
    << "FeaturesComputed", "ModelEstimated" >>,
    << "FeaturesComputed", "Failed" >>,
    << "ModelEstimated", "TrafficAdjusted" >>,
    << "ModelEstimated", "TrafficSkipped" >>,
    << "TrafficAdjusted", "WaitAdjusted" >>,
    << "TrafficSkipped", "WaitAdjusted" >>,
    << "WaitAdjusted", "Classified" >>,
    << "Classified", "Composed" >> }

\* predicted_time as the traffic stage left it, from the recorded estimate
PreWaitValue(s) ==
  IF Len(s.traffic_data) = 0 THEN s.estimate
  ELSE (s.estimate * (70 + 3 * s.traffic_data[1].traffic_multiplier)) \div 100

\* C2: the handler moves features -> model estimate -> optional traffic
\* adjustment -> wait adjustment -> classification -> composition, and the
\* returned congestion level is the level of the final value, which
\* includes the added wait.
C2_StageOrder ==
  /\ [] (\A i \in DOMAIN inv :
           inv[i].pc = "Composed" =>
             LET r == inv[i].response[1]
             IN  /\ r.predicted_time_minutes =
                      PreWaitValue(inv[i])
                      + inv[i].wait_time_data[1].estimated_wait_minutes
                 /\ r.congestion_level =
                      calculate_congestion_level(r.predicted_time_minutes,
                                                 DefaultBaseTime))
  /\ [][ \A i \in DOMAIN inv :
           inv[i].pc # inv'[i].pc => << inv[i].pc, inv'[i].pc >> \in StageSteps ]_vars

\* a returned result whose traffic stage ran and whose level differs from
\* the level of the pre-wait value
C2_Witness ==
  \E i \in DOMAIN inv :
    /\ inv[i].pc = "Composed"
    /\ Len(inv[i].traffic_data) = 1
    /\ inv[i].response[1].congestion_level = "severe"
    /\ calculate_congestion_level(PreWaitValue(inv[i]), DefaultBaseTime) = "low"

Tier(level) ==
  CASE level = "low" -> 0
    [] level = "moderate" -> 1
    [] level = "high" -> 2
    [] level = "severe" -> 3

\* C3: the level is low below ratio 1.2, moderate from 1.2 to below 1.5,
\* high from 1.5 to below 2.0 and severe from 2.0 on; with base 30,
\* 36 is moderate, 45 is high and 60 is severe.
C3_Thresholds ==
  (call.fn = "calculate_congestion_level" /\ call.r1 # "") =>
    LET p == call.p1
        b == call.base_time
    IN  /\ (10 * p < 12 * b) => call.r1 = "low"
        /\ (12 * b <= 10 * p /\ 10 * p < 15 * b) => call.r1 = "moderate"
        /\ (15 * b <= 10 * p /\ 10 * p < 20 * b) => call.r1 = "high"
        /\ (20 * b <= 10 * p) => call.r1 = "severe"
        /\ (b = Minutes(30) /\ p = Minutes(36)) => call.r1 = "moderate"
        /\ (b = Minutes(30) /\ p = Minutes(45)) => call.r1 = "high"
        /\ (b = Minutes(30) /\ p = Minutes(60)) => call.r1 = "severe"

C3_Witness ==
  /\ call.fn = "calculate_congestion_level"
  /\ call.base_time = Minutes(30)
  /\ call.p1 = Minutes(36)
  /\ call.r1 = "moderate"

\* C4: for one base time and p1 <= p2 the level of p1 is not above the
\* level of p2 in the order low < moderate < high < severe.
C4_Monotonic ==
  (call.fn = "calculate_congestion_level" /\ call.r1 # "" /\ call.r2 # "") =>
    Tier(call.r1) <= Tier(call.r2)

C4_Witness ==
  /\ call.fn = "calculate_congestion_level"
  /\ call.p1 < call.p2
  /\ call.r1 = "moderate"
  /\ call.r2 = "high"

WaitResults == { call.plain, call.holiday }

\* C5: every estimate, with or without the holiday factor and also for a
\* key missing from the table, has min <= estimated <= max and min >= 2
\* after the rounding.
C5_WaitOrdered ==
  call.fn = "estimate_wait_time" =>
    \A r \in WaitResults :
      Len(r) = 1 =>
        /\ r[1].min_wait_minutes <= r[1].estimated_wait_minutes
        /\ r[1].estimated_wait_minutes <= r[1].max_wait_minutes
        /\ r[1].min_wait_minutes >= Minutes(2)

\* the smallest table entry (3 minutes) on a holiday: 4.5, min 3.1, max 5.9
C5_Witness ==
  /\ call.fn = "estimate_wait_time"
  /\ call.checkpoint = "tuas"
  /\ Len(call.holiday) = 1
  /\ call.holiday[1].estimated_wait_minutes = 4500
  /\ call.holiday[1].min_wait_minutes = 3100
  /\ call.holiday[1].max_wait_minutes = 5900

\* C6: the holiday estimate is the plain estimate times 1.5, rounded to one
\* decimal place.
C6_HolidayFactor ==
  (call.fn = "estimate_wait_time" /\ Len(call.plain) = 1 /\ Len(call.holiday) = 1) =>
    call.holiday[1].estimated_wait_minutes =
      Round1((call.plain[1].estimated_wait_minutes * 15) \div 10, 0)

C6_Witness ==
  /\ call.fn = "estimate_wait_time"
  /\ call.checkpoint = "woodlands"
  /\ Len(call.plain) = 1
  /\ Len(call.holiday) = 1
  /\ call.plain[1].estimated_wait_minutes = Minutes(35)
  /\ call.holiday[1].estimated_wait_minutes = 52500

\* the request of scenario 1 on a weekday that is not today, no model loaded
Scenario1(s) ==
  /\ ~ model.model_loaded
  /\ s.request.origin = "singapore"
  /\ s.request.destination = "jb"
  /\ s.request.travel_time = << 8, 0 >>
  /\ s.request.mode = "car"
  /\ s.request.checkpoint = "woodlands"
  /\ s.request.travel_date.weekday < 5
  /\ ~ s.is_today
  /\ s.pc = "Composed"

\* C7 as stated: on any future weekday the scenario-1 request returns
\* 110.0 minutes and severe.
C7_AnyWeekday ==
  \A i \in DOMAIN inv :
    Scenario1(inv[i]) =>
      /\ inv[i].response[1].predicted_time_minutes = Minutes(110)
      /\ inv[i].response[1].congestion_level = "severe"

\* C7 amended: on a future weekday that is no holiday the scenario-1
\* request returns 110.0 minutes; on a holiday weekday the wait is
\* 35 x 1.5 = 52.5 and it returns 127.5; the level is severe in both.
C7_WeekdayByHoliday ==
  \A i \in DOMAIN inv :
    Scenario1(inv[i]) =>
      /\ inv[i].response[1].predicted_time_minutes =
           (IF inv[i].features.is_any_holiday = 0 THEN Minutes(110) ELSE 127500)
      /\ inv[i].response[1].congestion_level = "severe"

C7_Witness ==
  \E i \in DOMAIN inv :
    /\ Scenario1(inv[i])
    /\ inv[i].features.is_any_holiday = 0
    /\ inv[i].response[1].predicted_time_minutes = Minutes(110)

\* C8: a traffic adjustment with multiplier m turns the point estimate p
\* into p x (0.7 + 0.3 m); m = 1.0 leaves it unchanged.
C8_Blend ==
  \A i \in DOMAIN inv :
    inv[i].pc = "TrafficAdjusted" =>
      LET m == inv[i].traffic_data[1].traffic_multiplier
      IN  /\ inv[i].predicted_time * 100 = inv[i].estimate * (70 + 3 * m)
          /\ (m = 10 => inv[i].predicted_time = inv[i].estimate)

C8_Witness ==
  \E i \in DOMAIN inv :
    /\ inv[i].pc = "TrafficAdjusted"
    /\ inv[i].traffic_data[1].traffic_multiplier = 10
    /\ inv[i].estimate = Minutes(75)
    /\ inv[i].predicted_time = Minutes(75)

\* the standard deviation with divisor n - 1, in milli (n >= 2)
SampleStd(tree_predictions) ==
  LET n == Len(tree_predictions)
  IN  ISqrt((SpreadNumer(tree_predictions) * 1000000) \div (n * (n - 1)))

\* C9: for an ensemble, sigma is the sample standard deviation (divisor
\* n - 1) of the member predictions, lower = max(0, point - 1.96 sigma) and
\* upper = point + 1.96 sigma; for [28,30,32,30,30] sigma^2 = 2.
C9_SampleStdBand ==
  (/\ call.fn = "predict"
   /\ Len(call.band) = 1
   /\ call.artifact.has_estimators
   /\ Len(TreePredictions(call.artifact.estimators)) >= 2) =>
    LET sigma == SampleStd(TreePredictions(call.artifact.estimators))
    IN  /\ call.band[1].lower_bound =
             Max2(0, call.prediction - (196 * sigma) \div 100)
        /\ call.band[1].upper_bound = call.prediction + (196 * sigma) \div 100
        /\ (TreePredictions(call.artifact.estimators) = << 28, 30, 32, 30, 30 >>
              => sigma * sigma <= 2000000 /\ 2000000 < (sigma + 1) * (sigma + 1))

SameRequest ==
  /\ DOMAIN inv = {1, 2}
  /\ inv[1].pc = "Composed"
  /\ inv[2].pc = "Composed"
  /\ ~ model.model_loaded
  /\ inv[1].request = inv[2].request
  /\ inv[1].use_realtime = inv[2].use_realtime
  /\ inv[1].is_today = inv[2].is_today

\* C10 as stated: with no model, two invocations of the same request at the
\* same instant return the same result whatever the collaborators answer.
C10_SameResult ==
  SameRequest => inv[1].response = inv[2].response

\* C10 amended: the two results are the same when no weather key is set and
\* the request is not adjusted (use_realtime off or the date not today), and
\* whenever the two invocations got the same weather reading and the same
\* live-traffic answer.
C10_SameResultSameAnswers ==
  SameRequest =>
    /\ (~ settings.openweather_api_key /\ ~ (inv[1].use_realtime /\ inv[1].is_today))
         => inv[1].response = inv[2].response
    /\ (/\ inv[1].features.rain_mm = inv[2].features.rain_mm
        /\ inv[1].features.temp_c = inv[2].features.temp_c
        /\ inv[1].traffic_data = inv[2].traffic_data)
         => inv[1].response = inv[2].response

\* both returned, the weather key set, the request adjusted, same answers
C10_Witness ==
  /\ SameRequest
  /\ settings.openweather_api_key
  /\ Len(inv[1].traffic_data) = 1
  /\ inv[1].traffic_data = inv[2].traffic_data
  /\ inv[1].features.rain_mm = 25
  /\ inv[2].features.rain_mm = 25
  /\ inv[1].response = inv[2].response

\* C11: with model_loaded false the handler never calls predict, takes the
\* feature historical_avg_time b as the point estimate with lower = 0.85 b
\* and upper = 1.15 b, never fails, and the result it returns is complete:
\* the fallback values with the wait added, a level and the features.
C11_FallbackWithoutModel ==
  \A i \in DOMAIN inv :
    ~ model.model_loaded =>
      /\ "predict" \notin inv[i].calls
      /\ inv[i].pc # "Failed"
      /\ Len(inv[i].error) = 0
      /\ inv[i].pc \in AfterModelStage =>
            inv[i].estimate = inv[i].features.historical_avg_time
      /\ inv[i].pc = "ModelEstimated" =>
            /\ inv[i].predicted_time = inv[i].features.historical_avg_time
            /\ 100 * inv[i].lower_bound = 85 * inv[i].features.historical_avg_time
            /\ 100 * inv[i].upper_bound = 115 * inv[i].features.historical_avg_time
      /\ inv[i].pc = "Composed" =>
            /\ Len(inv[i].response) = 1
            /\ inv[i].response[1].features_used.historical_avg_time = inv[i].estimate
            /\ inv[i].response[1].congestion_level
                  \in {"low", "moderate", "high", "severe"}
            /\ Len(inv[i].traffic_data) = 0 =>
                  /\ inv[i].response[1].predicted_time_minutes =
                       inv[i].estimate + inv[i].wait_time_data[1].estimated_wait_minutes
                  /\ 100 * (inv[i].response[1].lower_bound_minutes
                            - inv[i].wait_time_data[1].min_wait_minutes)
                       = 85 * inv[i].estimate
                  /\ 100 * (inv[i].response[1].upper_bound_minutes
                            - inv[i].wait_time_data[1].max_wait_minutes)
                       = 115 * inv[i].estimate

\* no model, a Saturday at 18:00 (30 x 2.5 x 0.7 = 52.5, band 44.625 ..
\* 60.375), no traffic adjustment: the result is returned with the wait added
C11_Witness ==
  \E i \in DOMAIN inv :
    /\ ~ model.model_loaded
    /\ inv[i].pc = "Composed"
    /\ inv[i].estimate = 52500
    /\ Len(inv[i].traffic_data) = 0
    /\ inv[i].response[1].lower_bound_minutes =
         44625 + inv[i].wait_time_data[1].min_wait_minutes
    /\ inv[i].response[1].upper_bound_minutes =
         60375 + inv[i].wait_time_data[1].max_wait_minutes

\* C12: startup always ends with the service serving, whatever the model
\* source holds.  When the loader fails (missing file, corrupt artifact,
\* storage error) nothing is propagated and model_loaded stays false;
\* model_loaded is true only with an artifact in the model field.  (When the
\* artifact is loaded and reading its feature names raises, that too is
\* caught: the service serves with the loaded model and no feature names.)
C12_StartupCompletes ==
  /\ <> Serving
  /\ [] (model.model_loaded => Len(model.model) = 1)
  /\ [] (Serving =>
           /\ call.source \in LoadFailures => (call.load_raised /\ model = NoModel)
           /\ call.source \notin LoadFailures =>
                 /\ model.model_loaded
                 /\ model.model = call.source.artifact
                 /\ call.load_raised = (call.source.feature_names_in = "no_tolist")
                 /\ Len(model.feature_names) = 1
                       <=> call.source.feature_names_in = "array")
  /\ [] (\A i \in DOMAIN inv : inv[i].pc # "start" => Serving)

\* the artifact is corrupt, the load raised, and a request was answered from
\* the fallback
C12_Witness ==
  /\ Serving
  /\ call.source.kind = "corrupt"
  /\ call.load_raised
  /\ ~ model.model_loaded
  /\ \E i \in DOMAIN inv : inv[i].pc = "Composed"

AfterTrafficStage ==
  {"TrafficAdjusted", "TrafficSkipped", "WaitAdjusted", "Classified", "Composed"}

\* C13: the traffic adjustment is applied to the point estimate exactly when
\* use_realtime is set, the date is today and the live-traffic source
\* returned data (and it then moves the estimate unless the multiplier is
\* 1.0); when the date is not today the source is not called; when the
\* source gives nothing the estimate is unchanged, nothing fails, and the
\* returned result is the estimate plus the wait without a traffic feature.
C13_TrafficOnlyTodayWithData ==
  \A i \in DOMAIN inv :
    LET s == inv[i]
        adjusted == Len(s.traffic_data) = 1
        asked == "get_live_travel_time" \in s.calls
    IN  /\ adjusted => (s.use_realtime /\ s.is_today /\ asked)
        /\ asked => (s.use_realtime /\ s.is_today)
        /\ (s.pc \in AfterTrafficStage /\ s.use_realtime /\ s.is_today) => asked
        /\ s.pc \in {"TrafficAdjusted", "TrafficSkipped"} =>
              /\ adjusted <=> s.pc = "TrafficAdjusted"
              /\ ~ adjusted => s.predicted_time = s.estimate
              /\ adjusted =>
                    /\ s.predicted_time =
                         (s.estimate * (70 + 3 * s.traffic_data[1].traffic_multiplier))
                           \div 100
                    /\ s.traffic_data[1].traffic_multiplier # 10
                         => s.predicted_time # s.estimate
        /\ s.pc = "Failed" => "predict" \in s.calls
        /\ s.pc = "Composed" =>
              /\ adjusted <=>
                   "realtime_traffic_multiplier" \in DOMAIN s.response[1].features_used
              /\ ~ adjusted =>
                   s.response[1].predicted_time_minutes =
                     s.estimate + s.wait_time_data[1].estimated_wait_minutes

\* a request for today with use_realtime set whose live-traffic call gave
\* nothing: the result is returned with the estimate unchanged
C13_Witness ==
  \E i \in DOMAIN inv :
    /\ inv[i].pc = "Composed"
    /\ inv[i].use_realtime
    /\ inv[i].is_today
    /\ "get_live_travel_time" \in inv[i].calls
    /\ Len(inv[i].traffic_data) = 0
    /\ inv[i].estimate = Minutes(75)
    /\ inv[i].response[1].predicted_time_minutes = Minutes(110)

\* the bounds as the model stage left them (the traffic stage does not touch
\* them), recomputed from the model object and the recorded estimate
PreWaitBand(s) ==
  IF model.model_loaded THEN ConfidenceBand(model.model[1], s.estimate)
  ELSE [ lower_bound |-> (s.estimate * 85) \div 100,
         upper_bound |-> (s.estimate * 115) \div 100 ]

\* the wait the request calls for: its checkpoint, the direction of its
\* origin, its hour, the weekend and holiday flags of its date
RequestWait(s) ==
  estimate_wait_time(s.request.checkpoint,
                     IF s.request.origin = "singapore" THEN "singapore_to_jb"
                     ELSE "jb_to_singapore",
                     s.request.travel_time[1],
                     s.request.travel_date.weekday \in {5, 6},
                     s.features.is_any_holiday = 1)

\* C14: every returned result went through the wait adjustment: predicted is
\* the pre-wait estimate plus the estimated wait, lower is the pre-wait lower
\* bound plus the wait minimum, upper is the pre-wait upper bound plus the
\* wait maximum; before the wait stage none of the three is added, after it
\* all three are.
C14_WaitAdded ==
  \A i \in DOMAIN inv :
    LET s == inv[i]
        band == PreWaitBand(s)
    IN  /\ s.pc \in {"ModelEstimated", "TrafficAdjusted", "TrafficSkipped"} =>
              /\ Len(s.wait_time_data) = 0
              /\ s.predicted_time = PreWaitValue(s)
              /\ s.lower_bound = band.lower_bound
              /\ s.upper_bound = band.upper_bound
        /\ s.pc \in {"WaitAdjusted", "Classified", "Composed"} =>
              LET wait == RequestWait(s)
              IN  /\ s.wait_time_data = << wait >>
                  /\ s.predicted_time = PreWaitValue(s) + wait.estimated_wait_minutes
                  /\ s.lower_bound = band.lower_bound + wait.min_wait_minutes
                  /\ s.upper_bound = band.upper_bound + wait.max_wait_minutes
                  /\ s.features.estimated_wait_time = wait.estimated_wait_minutes
        /\ s.pc = "Composed" =>
              /\ s.response[1].predicted_time_minutes = s.predicted_time
              /\ s.response[1].lower_bound_minutes = s.lower_bound
              /\ s.response[1].upper_bound_minutes = s.upper_bound

\* the ensemble [28,30,32,30,30] answering 45 for jb -> singapore through
\* woodlands at 07:00 on a plain weekday: wait 40, min 28, max 52
C14_Witness ==
  \E i \in DOMAIN inv :
    /\ inv[i].pc = "Composed"
    /\ model.model_loaded
    /\ inv[i].request.origin = "jb"
    /\ inv[i].estimate = Minutes(45)
    /\ Len(inv[i].traffic_data) = 0
    /\ inv[i].wait_time_data[1].estimated_wait_minutes = Minutes(40)
    /\ inv[i].response[1].predicted_time_minutes = Minutes(85)
    /\ inv[i].response[1].lower_bound_minutes
         = PreWaitBand(inv[i]).lower_bound + Minutes(28)
    /\ inv[i].response[1].upper_bound_minutes
         = PreWaitBand(inv[i]).upper_bound + Minutes(52)

\* the alerts that carry the severe-congestion warning, and the peak-hour one
WithSevereWarning ==
  { << SevereAlert >>, << SevereAlert \o " " \o HolidayAlert >>,
    << HolidayAlert \o " " \o SevereAlert >> }

WithPeakWarning ==
  { << PeakAlert >>, << PeakAlert \o " " \o HolidayAlert >>,
    << HolidayAlert \o " " \o PeakAlert >> }

\* C15: the returned alert carries the severe-congestion warning exactly
\* when the level is severe, the peak-hour warning exactly when the level is
\* high and is_peak_hour = 1, and no congestion warning otherwise; it is
\* empty exactly when there is no congestion warning and is_any_holiday = 0.
C15_CongestionAlert ==
  \A i \in DOMAIN inv :
    inv[i].pc = "Composed" =>
      LET r == inv[i].response[1]
          f == r.features_used
      IN  /\ r.alert \in WithSevereWarning <=> r.congestion_level = "severe"
          /\ r.alert \in WithPeakWarning <=>
                (r.congestion_level = "high" /\ f.is_peak_hour = 1)
          /\ r.alert \notin (WithSevereWarning \cup WithPeakWarning) =>
                r.alert \in { << >>, << HolidayAlert >> }
          /\ r.alert = << >> <=>
                /\ \/ r.congestion_level \in {"low", "moderate"}
                   \/ (r.congestion_level = "high" /\ f.is_peak_hour = 0)
                /\ f.is_any_holiday = 0

\* a high level in a peak hour on a day that is no holiday: the peak-hour
\* warning alone
C15_Witness ==
  \E i \in DOMAIN inv :
    /\ inv[i].pc = "Composed"
    /\ inv[i].response[1].congestion_level = "high"
    /\ inv[i].features.is_peak_hour = 1
    /\ inv[i].features.is_any_holiday = 0
    /\ inv[i].response[1].alert = << PeakAlert >>

\* C16: with is_any_holiday = 1 the alert is the congestion alert, one
\* space and the holiday notice when there is a congestion alert, and the
\* holiday notice alone otherwise; with is_any_holiday = 0 the alert holds
\* no holiday notice.
C16_HolidayNotice ==
  \A i \in DOMAIN inv :
    inv[i].pc = "Composed" =>
      LET r == inv[i].response[1]
          f == r.features_used
          congestion ==
            IF r.congestion_level = "severe" THEN << SevereAlert >>
            ELSE IF r.congestion_level = "high" /\ f.is_peak_hour = 1
              THEN << PeakAlert >>
            ELSE << >>
      IN  /\ (f.is_any_holiday = 1 /\ Len(congestion) = 1) =>
                r.alert = << congestion[1] \o " " \o HolidayAlert >>
          /\ (f.is_any_holiday = 1 /\ Len(congestion) = 0) =>
                r.alert = << HolidayAlert >>
          /\ f.is_any_holiday = 0 => r.alert = congestion
          /\ f.is_any_holiday \in {0, 1}

\* a high level in a peak hour on a holiday: both sentences, one space
\* between them
C16_Witness ==
  \E i \in DOMAIN inv :
    /\ inv[i].pc = "Composed"
    /\ inv[i].features.is_any_holiday = 1
    /\ inv[i].response[1].congestion_level = "high"
    /\ inv[i].response[1].alert =
         << "Heavy traffic during peak hours. Plan extra time. Holiday period - expect increased traffic at borders." >>

Levels == {"low", "moderate", "high", "severe"}

\* a complete result: every stage has left its contribution and no error
CompleteResult(s) ==
  /\ s.pc = "Composed"
  /\ Len(s.error) = 0
  /\ Len(s.response) = 1
  /\ Len(s.wait_time_data) = 1
  /\ LET r == s.response[1]
     IN  /\ r.predicted_time_minutes =
              PreWaitValue(s) + s.wait_time_data[1].estimated_wait_minutes
         /\ r.lower_bound_minutes =
              PreWaitBand(s).lower_bound + s.wait_time_data[1].min_wait_minutes
         /\ r.upper_bound_minutes =
              PreWaitBand(s).upper_bound + s.wait_time_data[1].max_wait_minutes
         /\ r.congestion_level \in Levels
         /\ r.congestion_level =
              calculate_congestion_level(r.predicted_time_minutes, DefaultBaseTime)
         /\ {"hour_of_day", "is_any_holiday", "historical_avg_time",
             "estimated_wait_time"} \subseteq DOMAIN r.features_used
         /\ ("predict" \in s.calls) <=> model.model_loaded

\* the one failure: the error with its cause, and nothing of a result
FailedOnly(s) ==
  /\ s.pc = "Failed"
  /\ s.error = << "Prediction failed: model error" >>
  /\ Len(s.response) = 0
  /\ s.congestion_level = ""
  /\ Len(s.alert) = 0

\* how far the handler has come
StageRank(pc) ==
  CASE pc = "start" -> 0
    [] pc = "FeaturesComputed" -> 1
    [] pc = "ModelEstimated" -> 2
    [] pc \in {"TrafficAdjusted", "TrafficSkipped"} -> 3
    [] pc = "WaitAdjusted" -> 4
    [] pc = "Classified" -> 5
    [] pc \in {"Composed", "Failed"} -> 6

SoloFeatures(s) ==
  engineer_features(s.request.travel_date, s.request.travel_time, s.request.origin,
                    s.request.destination, s.request.mode,
                    settings.openweather_api_key, s.weather_answer)

SoloResponse(s) ==
  LET f0 == SoloFeatures(s)
      point == IF model.model_loaded THEN s.estimate ELSE f0.historical_avg_time
      band == IF model.model_loaded THEN ConfidenceBand(model.model[1], point)
              ELSE [ lower_bound |-> (point * 85) \div 100,
                     upper_bound |-> (point * 115) \div 100 ]
      adjusted == s.use_realtime /\ s.is_today /\ Len(s.traffic_data) = 1
      m == IF adjusted THEN s.traffic_data[1].traffic_multiplier ELSE 10
      p1 == IF adjusted THEN (point * (70 + 3 * m)) \div 100 ELSE point
      wait == RequestWait([s EXCEPT !.features = f0])
      p2 == p1 + wait.estimated_wait_minutes
      keys == DOMAIN f0 \cup {"estimated_wait_time"}
                \cup (IF adjusted THEN {"realtime_traffic_multiplier"} ELSE {})
      f2 == [ k \in keys |->
                IF k = "estimated_wait_time" THEN wait.estimated_wait_minutes
                ELSE IF k = "realtime_traffic_multiplier" THEN m
                ELSE f0[k] ]
      level == calculate_congestion_level(p2, DefaultBaseTime)
  IN  [ predicted_time_minutes |-> p2,
        lower_bound_minutes    |-> band.lower_bound + wait.min_wait_minutes,
        upper_bound_minutes    |-> band.upper_bound + wait.max_wait_minutes,
        congestion_level       |-> level,
        features_used          |-> f2,
        alert                  |-> ComposeAlert(level, f2) ]

\* C18: whatever the interleaving of two invocations, no step writes the
\* model object or the settings, a step of one invocation leaves the other
\* invocation's locals (features, estimate, bounds) as they were, and each
\* returned result is the result of the same request run alone with the
\* same collaborator answers.
C18_Isolated ==
  /\ [] (\A i \in DOMAIN inv :
           inv[i].pc = "Composed" => inv[i].response = << SoloResponse(inv[i]) >>)
  /\ [][ /\ model' = model
         /\ settings' = settings
         /\ \A i \in DOMAIN inv : \A j \in DOMAIN inv :
              (i # j /\ inv'[i] # inv[i]) => inv'[j] = inv[j] ]_vars

\* two different requests, both adjusted by live traffic with different
\* multipliers; the first has returned while the second is between its
\* traffic and wait stages
C18_Witness ==
  /\ DOMAIN inv = {1, 2}
  /\ model.model_loaded
  /\ inv[1].request # inv[2].request
  /\ inv[1].pc = "Composed"
  /\ inv[2].pc = "TrafficAdjusted"
  /\ Len(inv[1].traffic_data) = 1
  /\ inv[1].traffic_data # inv[2].traffic_data
  /\ inv[1].weather_answer # inv[2].weather_answer
  /\ inv[1].response = << SoloResponse(inv[1]) >>

\* C19: predict on an object whose model_loaded is false raises "Model not
\* loaded" without calling a model; a failure of the underlying model is
\* raised to the caller and no estimate is returned in its place; predict
\* never changes model, feature_names or model_loaded.
C19_PredictRaises ==
  /\ [] ((call.fn = "TravelTimeModel.predict" /\ Len(call.outcome) = 1) =>
           LET o == call.outcome[1]
           IN  /\ ~ model.model_loaded =>
                     /\ o.raised = << "Model not loaded" >>
                     /\ o.model_calls = 0
                     /\ Len(o.result) = 0
               /\ (model.model_loaded /\ Len(call.answer) = 0) =>
                     /\ o.raised = << "model error" >>
                     /\ Len(o.result) = 0
               /\ (model.model_loaded /\ Len(call.answer) = 1) =>
                     /\ Len(o.raised) = 0
                     /\ Len(o.result) = 1
                     /\ o.result[1].predicted_time = call.answer[1]
               /\ Len(o.raised) + Len(o.result) = 1)
  /\ [][model' = model]_vars

\* the loaded model raised and predict raised the same error
C19_Witness ==
  /\ call.fn = "TravelTimeModel.predict"
  /\ model.model_loaded
  /\ Len(call.answer) = 0
  /\ Len(call.outcome) = 1
  /\ call.outcome[1].raised = << "model error" >>
  /\ Len(call.outcome[1].result) = 0

\* the positions among the first 50 whose member has a predict capability
UsableSampled(estimators) ==
  { i \in DOMAIN estimators : i <= 50 /\ Len(estimators[i]) = 1 }

\* the sum of the p-th powers (p = 1, 2) of the predictions at positions I
RECURSIVE PowerSum(_, _, _)
PowerSum(estimators, I, p) ==
  IF I = {} THEN 0
  ELSE LET i == CHOOSE j \in I : TRUE
           x == estimators[i][1]
       IN  (IF p = 1 THEN x ELSE x * x) + PowerSum(estimators, I \ {i}, p)

\* 1.96 times the standard deviation (divisor n) of the predictions at I
SpreadOver(estimators, I) ==
  LET n == Cardinality(I)
      numer == n * PowerSum(estimators, I, 2)
               - PowerSum(estimators, I, 1) * PowerSum(estimators, I, 1)
  IN  (196 * ISqrt((numer * 1000000) \div (n * n))) \div 100

\* C20: the band comes from the members among the first 50 that have a
\* predict capability and from no other member; it is the fallback band
\* 0.85 x point .. 1.15 x point exactly when the model has no ensemble or
\* none of the first 50 members yields a prediction.
C20_BandFromFirstFifty ==
  (/\ call.fn = "TravelTimeModel.predict"
   /\ Len(call.outcome) = 1
   /\ Len(call.outcome[1].result) = 1) =>
    LET artifact == model.model[1]
        r == call.outcome[1].result[1]
        point == r.predicted_time
        I == UsableSampled(artifact.estimators)
        fallback == ~ artifact.has_estimators \/ I = {}
    IN  /\ fallback =>
              /\ 100 * r.lower_bound = 85 * point
              /\ 100 * r.upper_bound = 115 * point
        /\ ~ fallback =>
              /\ r.lower_bound =
                   Max2(0, point - SpreadOver(artifact.estimators, I))
              /\ r.upper_bound = point + SpreadOver(artifact.estimators, I)
              /\ Cardinality(I) <= 50

\* 52 members: the first predicts 28, the next 49 predict 30, the last two
\* 32; only the first 50 count, the band around 30 is 30 -+ 1.96 x 0.28
C20_Witness ==
  /\ call.fn = "TravelTimeModel.predict"
  /\ model.model_loaded
  /\ model.model[1].has_estimators
  /\ Len(model.model[1].estimators) = 52
  /\ model.model[1].estimators[1] = << 28 >>
  /\ model.model[1].estimators[50] = << 30 >>
  /\ model.model[1].estimators[52] = << 32 >>
  /\ Len(call.outcome) = 1
  /\ call.outcome[1].result =
       << [ predicted_time |-> 30000, lower_bound |-> 29452, upper_bound |-> 30548 ] >>

\* the position of a key name in Python's ascending order
KeyRank(k) == CHOOSE i \in 1..Len(KeyOrder) : KeyOrder[i] = k

\* C21: the array handed to the model follows the declared feature names in
\* their order when the model declares names, with 0.0 for a declared name
\* the dictionary lacks and nothing for a key that is not declared; with no
\* declaration it holds the value of every key, the keys in ascending
\* order.  An array is built for every dictionary.
C21_FeatureOrder ==
  (call.fn = "feature_array" /\ Len(call.outcome) = 1) =>
    LET array == call.outcome[1]
        f == call.features
    IN  IF Len(model.feature_names) = 1
          THEN LET names == model.feature_names[1]
               IN  /\ Len(array) = Len(names)
                   /\ \A i \in 1..Len(names) :
                        /\ names[i] \in DOMAIN f => array[i] = f[names[i]]
                        /\ names[i] \notin DOMAIN f => array[i] = 0
          ELSE /\ Len(array) = Cardinality(DOMAIN f)
               /\ \E keys \in [1..Len(array) -> DOMAIN f] :
                    /\ \A i, j \in 1..Len(array) :
                         i < j => KeyRank(keys[i]) < KeyRank(keys[j])
                    /\ \A i \in 1..Len(array) : array[i] = f[keys[i]]

\* a declaration with two names the dictionary lacks, and a dictionary with
\* a key the declaration lacks
C21_Witness ==
  /\ call.fn = "feature_array"
  /\ Len(call.outcome) = 1
  /\ Len(model.feature_names) = 1
  /\ model.feature_names[1] = << "is_weekend", "hour_of_day", "month" >>
  /\ DOMAIN call.features = {"hour_of_day", "rain_mm"}
  /\ call.outcome[1] = << 0, call.features["hour_of_day"], 0 >>

\* C22: for every mode and hour exactly one of mode_car, mode_taxi, mode_bus
\* is 1 (the one of the request's mode); is_morning_peak is 1 exactly for
\* hours 7..9, is_evening_peak exactly for 17..19, is_peak_hour exactly when
\* either is; is_weekend is 1 exactly when day_of_week >= 5; is_any_holiday
\* is 1 exactly when one of the four holiday flags is.
C22_Flags ==
  (call.fn = "engineer_features" /\ Len(call.features) = 1) =>
    LET f == call.features[1]
        r == call.request
        hour == r.travel_time[1]
    IN  /\ {f.mode_car, f.mode_taxi, f.mode_bus} \subseteq {0, 1}
        /\ f.mode_car + f.mode_taxi + f.mode_bus = 1
        /\ f.mode_car = 1 <=> r.mode = "car"
        /\ f.mode_taxi = 1 <=> r.mode = "taxi"
        /\ f.mode_bus = 1 <=> r.mode = "bus"
        /\ {f.is_morning_peak, f.is_evening_peak, f.is_peak_hour,
            f.is_weekend, f.is_any_holiday} \subseteq {0, 1}
        /\ f.hour_of_day = hour
        /\ f.is_morning_peak = 1 <=> hour \in 7..9
        /\ f.is_evening_peak = 1 <=> hour \in 17..19
        /\ f.is_peak_hour = 1 <=> (f.is_morning_peak = 1 \/ f.is_evening_peak = 1)
        /\ f.is_weekend = 1 <=> f.day_of_week >= 5
        /\ f.is_any_holiday = 1 <=>
             1 \in {f.is_sg_holiday, f.is_my_holiday,
                    f.is_sg_school_holiday, f.is_my_school_holiday}

\* a bus at 18:00 on a Saturday in Malaysia's school holidays only
C22_Witness ==
  /\ call.fn = "engineer_features"
  /\ Len(call.features) = 1
  /\ call.request.mode = "bus"
  /\ call.request.travel_time[1] = 18
  /\ call.features[1].mode_bus = 1
  /\ call.features[1].is_evening_peak = 1
  /\ call.features[1].is_morning_peak = 0
  /\ call.features[1].is_weekend = 1
  /\ call.features[1].is_my_school_holiday = 1
  /\ call.features[1].is_sg_school_holiday = 0
  /\ call.features[1].is_sg_holiday = 0
  /\ call.features[1].is_my_holiday = 0
  /\ call.features[1].is_any_holiday = 1

\* the factors of the claim: m in hundredths, d in tenths
HourFactor(hour) ==
  IF hour \in {7, 8, 9, 17, 18, 19} THEN 250
  ELSE IF hour \in {6, 10, 16, 20} THEN 180 ELSE 100

DayFactor(day_of_week) == IF day_of_week \in {5, 6} THEN 7 ELSE 10

\* C23: historical_avg_time is 30 x m x d, m being 2.5 in hours 7..9 and
\* 17..19, 1.8 in hours 6, 10, 16, 20 and 1.0 otherwise, d being 0.7 on
\* Saturday and Sunday and 1.0 otherwise; its only values are 30, 54, 75,
\* 21, 37.8 and 52.5 minutes, and the factor 2.5 is applied exactly in the
\* hours where is_peak_hour is 1.
C23_Baseline ==
  (call.fn = "engineer_features" /\ Len(call.features) = 1) =>
    LET f == call.features[1]
        m == HourFactor(f.hour_of_day)
        d == DayFactor(f.day_of_week)
    IN  /\ f.historical_avg_time * 1000 = Minutes(30) * m * d
        /\ f.historical_avg_time \in
             { Minutes(30), Minutes(54), Minutes(75), Minutes(21), 37800, 52500 }
        /\ f.is_peak_hour = 1 <=> f.historical_avg_time \in {Minutes(75), 52500}
        /\ f.is_peak_hour = 1 <=> m = 250

\* a Saturday shoulder hour: 30 x 1.8 x 0.7 = 37.8, not a peak hour
C23_Witness ==
  /\ call.fn = "engineer_features"
  /\ Len(call.features) = 1
  /\ call.request.travel_time[1] = 16
  /\ call.request.travel_date.weekday = 5
  /\ call.features[1].historical_avg_time = 37800
  /\ call.features[1].is_peak_hour = 0

\* the names of a list of columns
Names(columns) == { columns[i] : i \in 1..Len(columns) }

\* C30: the keys engineer_features produces are exactly the 21 names of
\* get_feature_columns, for every request, with and without a weather key;
\* so a model that declares those names is handed every value engineer_features
\* computed, in the declared order, none replaced by the default and none
\* left out.
C30_SameFeatureNames ==
  /\ Len(get_feature_columns) = 21
  /\ Cardinality(Names(get_feature_columns)) = 21
  /\ (call.fn = "engineer_features" /\ Len(call.features) = 1) =>
       /\ DOMAIN call.features[1] = Names(get_feature_columns)
       /\ Len(call.array) = 1 =>
            /\ model.feature_names = << get_feature_columns >>
            /\ Len(call.array[1]) = 21
            /\ \A i \in 1..21 :
                 /\ get_feature_columns[i] \in DOMAIN call.features[1]
                 /\ call.array[1][i] = call.features[1][get_feature_columns[i]]
            /\ \A k \in DOMAIN call.features[1] :
                 \E i \in 1..21 : get_feature_columns[i] = k

\* a weather key, the service answered, and the array was built
C30_Witness ==
  /\ call.fn = "engineer_features"
  /\ settings.openweather_api_key
  /\ Len(call.features) = 1
  /\ call.features[1].rain_mm = 25
  /\ Len(call.array) = 1
  /\ call.array[1][19] = 25
  /\ call.array[1][21] = call.features[1].historical_avg_time

\* C29: on every day of the year the serving rules (HolidayChecker) and the
\* training rules (add_holiday_features) give the same Singapore and the
\* same Malaysian school-holiday flag.
C29_SchoolHolidayAgree ==
  (call.fn = "school_holiday" /\ Len(call.serving) = 1 /\ Len(call.training) = 1) =>
     /\ call.serving[1].sg = call.training[1].sg
     /\ call.serving[1].my = call.training[1].my

\* 15 June: a Singapore school holiday and not a Malaysian one, by both
C29_Witness ==
  /\ call.fn = "school_holiday"
  /\ call.date = [month |-> 6, day |-> 15]
  /\ Len(call.serving) = 1
  /\ Len(call.training) = 1
  /\ call.serving[1] = [sg |-> 1, my |-> 0]
  /\ call.training[1] = [sg |-> 1, my |-> 0]

\* C24: the traffic stage replaces the point estimate and records the
\* multiplier under realtime_traffic_multiplier in the features, and changes
\* nothing else of the estimate: the lower and the upper bound after the
\* stage are the bounds before it, whatever the multiplier.
C24_TrafficKeepsBounds ==
  [][ \A i \in DOMAIN inv :
        (inv[i].pc = "ModelEstimated" /\ inv'[i].pc = "TrafficAdjusted") =>
          LET m == inv'[i].traffic_data[1].traffic_multiplier
          IN  /\ inv'[i].lower_bound = inv[i].lower_bound
              /\ inv'[i].upper_bound = inv[i].upper_bound
              /\ inv'[i].predicted_time = (inv[i].predicted_time * (70 + 3 * m)) \div 100
              /\ DOMAIN inv'[i].features =
                   DOMAIN inv[i].features \cup {"realtime_traffic_multiplier"}
              /\ inv'[i].features["realtime_traffic_multiplier"] = m
              /\ \A k \in DOMAIN inv[i].features : inv'[i].features[k] = inv[i].features[k]
              /\ inv'[i].estimate = inv[i].estimate
              /\ inv'[i].request = inv[i].request ]_vars

\* the stage has run with multiplier 2.0: the estimate moved above the
\* upper bound, which is still the one the estimate stage set
C24_Witness ==
  \E i \in DOMAIN inv :
    /\ inv[i].pc = "TrafficAdjusted"
    /\ inv[i].traffic_data[1].traffic_multiplier = 20
    /\ inv[i].features["realtime_traffic_multiplier"] = 20
    /\ inv[i].lower_bound = PreWaitBand(inv[i]).lower_bound
    /\ inv[i].upper_bound = PreWaitBand(inv[i]).upper_bound
    /\ inv[i].predicted_time > inv[i].upper_bound

\* C27: with no model loaded and no traffic adjustment every returned
\* result of a peak-hour request is severe (the value is at least 60.5
\* minutes), for every checkpoint, direction, day and holiday state; so the
\* peak-hour warning of a high level never appears there.
C27_PeakAlwaysSevere ==
  \A i \in DOMAIN inv :
    ( /\ ~ model.model_loaded
      /\ inv[i].pc = "Composed"
      /\ Len(inv[i].traffic_data) = 0
      /\ inv[i].features.is_peak_hour = 1 ) =>
      LET r == inv[i].response[1]
      IN  /\ r.congestion_level = "severe"
          /\ r.predicted_time_minutes >= 60500
          /\ r.alert \in WithSevereWarning
          /\ r.alert \notin WithPeakWarning

\* the smallest case: Tuas towards JB at 07:00 on a plain Saturday,
\* 52.5 + 8 = 60.5 minutes
C27_Witness ==
  \E i \in DOMAIN inv :
    /\ ~ model.model_loaded
    /\ inv[i].pc = "Composed"
    /\ Len(inv[i].traffic_data) = 0
    /\ inv[i].features.is_peak_hour = 1
    /\ inv[i].request.checkpoint = "tuas"
    /\ inv[i].response[1].predicted_time_minutes = 60500
    /\ inv[i].response[1].congestion_level = "severe"

\* C28: with no model loaded, when the traffic stage is skipped or applies
\* a multiplier between 0.5 and 1.5, the returned result has
\* 0 <= lower <= predicted <= upper, for every hour, day, checkpoint,
\* direction and holiday state.
C28_FallbackOrdered ==
  \A i \in DOMAIN inv :
    ( /\ ~ model.model_loaded
      /\ inv[i].pc = "Composed"
      /\ \/ Len(inv[i].traffic_data) = 0
         \/ inv[i].traffic_data[1].traffic_multiplier \in 5..15 ) =>
      LET r == inv[i].response[1]
      IN  /\ 0 <= r.lower_bound_minutes
          /\ r.lower_bound_minutes <= r.predicted_time_minutes
          /\ r.predicted_time_minutes <= r.upper_bound_minutes

\* a peak-hour result whose traffic stage applied the multiplier 1.5, the
\* upper end of the range
C28_Witness ==
  \E i \in DOMAIN inv :
    /\ ~ model.model_loaded
    /\ inv[i].pc = "Composed"
    /\ Len(inv[i].traffic_data) = 1
    /\ inv[i].traffic_data[1].traffic_multiplier = 15
    /\ inv[i].features.is_peak_hour = 1
    /\ inv[i].response[1].predicted_time_minutes
         < inv[i].response[1].upper_bound_minutes

\* C25: what /simulate reports for a scenario (predicted time, lower bound,
\* upper bound, congestion level) is what /predict returns for the same
\* request fields with use_realtime disabled, the model giving both the same
\* point value.
C25_SimulateEqualsPredict ==
  ( /\ call.fn = "simulate_scenarios"
    /\ call.pc = "returned"
    /\ 1 \in DOMAIN inv
    /\ inv[1].pc = "Composed"
    /\ ~ inv[1].use_realtime
    /\ call.scenarios[1] = inv[1].request
    /\ call.predictions[1].predicted_time = inv[1].estimate ) =>
    LET p == call.predictions[1]
        r == inv[1].response[1]
    IN  /\ p.predicted_time = r.predicted_time_minutes
        /\ p.lower_bound = r.lower_bound_minutes
        /\ p.upper_bound = r.upper_bound_minutes
        /\ p.congestion_level = r.congestion_level

\* the answer in call is the answer to a query made now (no submission and
\* no tick since)
AnsweredNow ==
  /\ call.fn = "get_recent_crossings"
  /\ call.crossings = DbGetRecentCrossings(db, clock, call.checkpoint, call.hours, call.limit)

\* C26: after any submissions, /crossings/recent returns only stored
\* crossings submitted within the last `hours` hours, of the given
\* checkpoint when one is given, at most `limit` of them, newest first; a
\* crossing submitted more than `hours` hours ago is never returned.
C26_RecentOnly ==
  AnsweredNow =>
    LET result == call.crossings
    IN  /\ Len(result) <= call.limit
        /\ call.count = Len(result)
        /\ \A k \in DOMAIN result :
             /\ \E j \in DOMAIN db : db[j] = result[k]
             /\ Len(call.checkpoint) = 1 => result[k].checkpoint = call.checkpoint[1]
             /\ clock - result[k].submitted_at <= call.hours
        /\ \A k, l \in DOMAIN result : k < l => result[k].id > result[l].id
====
